---------------------------- MODULE Spec2Model ----------------------------
(***************************************************************************)
(* The in-memory cache of foyer (foyer-memory/src/generic.rs): one shard   *)
(* of GenericCache with its indexer, its eviction container (FIFO or LRU), *)
(* its usage counter, its single-flight waiters map, the handles with      *)
(* their reference counts and flags, the Entry objects held outside the    *)
(* cache, the loader tasks spawned by entry() and the listener.            *)
(*                                                                         *)
(* The configuration is the one of the tests in generic.rs: shards = 1.    *)
(* A handle is a slot: a box that insert takes from the object pool or     *)
(* allocates, and that try_release_handle gives back.  The data of a       *)
(* handle is its (key, value) pair: it is there while inited holds, and    *)
(* the values of two insertions are told apart by the handles holding them.*)
(***************************************************************************)
EXTENDS Integers, Sequences, FiniteSets

\* ------------------------------------------------------------------ bounds
MaxHandles == 3     \* handle boxes that exist at the same time
Capacity == 2       \* GenericCacheConfig.capacity with shards = 1
MaxEntries == 3     \* get/clone are not issued with that many Entry objects alive
MaxWaiters == 1     \* Wait futures queued for one key
MaxLoaders == 2     \* loader tasks running for one key
MaxCloning == 1     \* Entry::clone calls between their read and their write of refs
MaxThreads == 2     \* threads followed at the shard mutex
RegionSize == 2     \* device.region_size(), in units of the smallest slice
MaxSlices == 2      \* writers and readers registered on the region at the same time
MaxVersion == 2     \* versions the region goes through
Align == 2          \* device.align(), in bytes
HeaderLen == 1      \* EntryHeader::serialized_len(), in bytes
RegionSlots == 4    \* aligned blocks in a region of the store
BatchSlots == 4     \* aligned blocks in the buffer of a batch
NumRegions == 2     \* regions of the store's device
MaxSequence == 4    \* entries the store is given
MaxOpens == 2       \* times the store is closed and opened again
MaxQueue == 2       \* Wait futures queued for one key where futures are dropped early
MaxTombstones == 1  \* tombstones given to a BatchMut
MaxFlushWaiters == 1   \* completion waiters registered on a BatchMut
MaxPinned == 1         \* entries the batches hold at a time
MaxCapacityArg == 9    \* small capacities given to the builders of device options
MaxFileSizeArg == 5    \* small file and region sizes given to the builders
MaxIndex == 4          \* indices given to the Container
ContainerCapacity == 4 \* Config::capacity of the Container
PoolCountBits == 1     \* Config::pool_count_bits of the Container
BigWeight == 3         \* the weight of the heavy items given to the Container
MaxFutures == 1        \* ExclusiveFutures pending on the region
NumShards == 2         \* shards of the cache seen at their mutexes
NumSets == 2           \* sets of the SetManager
MaxTasks == 2          \* tasks that call the SetManager
SetCacheCapacity == 1  \* set_cache_capacity
MaxStorage == 2        \* the storages an apply writes are numbered 1..MaxStorage

Handles == 1..MaxHandles
Threads == 1..MaxThreads
Regions == 1..NumRegions
Futures == 1..MaxFutures
ShardIds == 1..NumShards
Idle == [name |-> "idle", held |-> {}, want |-> 0]
SetIds == 1..NumSets
Tasks == 1..MaxTasks
NoTask == [pc |-> "idle"]
NoFuture == [state |-> "none"]
StoreKeys == {1, 2}
ValueLens == {1, Align + 1}    \* a value that leaves padding, one that crosses a block
Keys == {1, 2}
Charges == {1, Capacity}       \* one of several that fit, one that fills the shard
FetchKeys == {1}

VARIABLES
    policy,     \* "fifo" or "lru": the Eviction type the cache is built with
    handles,    \* handle -> BaseHandle: inited, key, charge, refs, flags
    indexer,    \* key -> handle, for the keys the indexer holds
    eviction,   \* the eviction container: handles, next victim first
    usage,      \* the shard's usage counter
    waiters,    \* key -> receivers alive, per queued oneshot sender
    entries,    \* handle -> number of live Entry objects pointing to it
    sending,    \* handle -> what insert_with_context still has to do
    loaders,    \* key -> number of running loader tasks spawned by entry()
    joins,      \* key -> the Miss futures (JoinHandles) of running loaders held
    cloning,    \* the clone calls that have read refs and not written it yet
    lock,       \* the thread that holds the shard mutex, 0 if it is free
    pc,         \* thread -> where it is in the operation it runs
    region,     \* RegionInner of one region of the store
    guard,      \* the ExclusiveGuard held on the region, <<>> if none
    slices,     \* the WriteSlice and ReadSlice objects alive, per kind
    reading,    \* loads between their registration and the end of the read
    futures,    \* the ExclusiveFutures that returned Pending: flags, woken or not
    mode,       \* the disk store: "open", "closed" or "recovering"
    sequence,   \* the next sequence the store gives to an entry
    batch,      \* BatchMut: len, buffer, groups
    flushing,   \* the groups of rotated batches not written yet
    disk,       \* region -> offset -> byte on the device
    dindexer,   \* the store's Indexer: hash -> EntryAddress
    clean,      \* the clean regions of the region manager
    scanner,    \* RegionScanner of the recovery: region, offset
    scanned,    \* region -> the EntryInfo the scanner has returned for it
    written,    \* region -> the frames written to it, by offset
    recorder,   \* key -> value, for the keys the admission picker admitted
    opens,      \* the times the store was reopened
    accepted,   \* what a BatchMut has accepted: indices, tombstones, waiters
    handed,     \* the Batches that BatchMut::rotate has returned
    rotated,    \* what the last call of BatchMut::rotate returned
    built,      \* the last call of build() of a device options builder
    pools,      \* pool id -> Pool of the Container: capacity, size, handles, policy
    store,      \* index -> the data the Container's Store holds for it
    ret,        \* the last call on the Container: its arguments and its result
    pinned,     \* handle -> where the CacheEntry the flusher holds on it is
    mutex,      \* shard -> the thread that holds its mutex, 0 if it is free
    op,         \* thread -> the operation it runs, the mutexes held and wanted
    sets,       \* set -> its RwLock (readers, writer), bloom filter, last apply
    cache,      \* the SetManager's cache: id, storage, strong count; oldest first
    setdisk,    \* set -> the storage written on the device
    tasks       \* task -> where it is in read, write or apply, and what it holds

\* the cache and what its clients hold
cacheVars == <<policy, handles, indexer, eviction, usage, waiters, entries,
               sending, loaders, joins, cloning>>

\* the threads of the cache seen at the shard mutex
lockVars == <<lock, pc>>

\* a region of the disk store and what its clients hold
regionVars == <<region, guard, slices, reading, futures>>

\* the large-object disk store
storeVars == <<mode, sequence, batch, flushing, disk, dindexer, clean, scanner,
               scanned, written, recorder, opens>>

\* a BatchMut seen by its caller
batchVars == <<accepted, handed, rotated>>

\* the builders of the device options
deviceVars == <<built>>

\* the Container
containerVars == <<pools, store, ret>>

\* the entries the batches pin
pinVars == <<pinned>>

\* the threads of the cache seen at the mutexes of all shards
mutexVars == <<mutex, op>>

\* the SetManager of the small-object store and its tasks
setVars == <<sets, cache, setdisk, tasks>>

\* what the operations on the cache's data leave alone
others == <<lockVars, regionVars, storeVars, batchVars, deviceVars,
            containerVars, pinVars, mutexVars, setVars>>

notLock == <<cacheVars, regionVars, storeVars, batchVars, deviceVars,
             containerVars, pinVars, mutexVars, setVars>>

notRegion == <<cacheVars, lockVars, storeVars, batchVars, deviceVars,
               containerVars, pinVars, mutexVars, setVars>>

notStore == <<cacheVars, lockVars, regionVars, batchVars, deviceVars,
              containerVars, pinVars, mutexVars, setVars>>

notDevice == <<cacheVars, lockVars, regionVars, storeVars, batchVars,
               containerVars, pinVars, mutexVars, setVars>>

notContainer == <<cacheVars, lockVars, regionVars, storeVars, batchVars,
                  deviceVars, pinVars, mutexVars, setVars>>

notPin == <<lockVars, regionVars, storeVars, batchVars, deviceVars,
            containerVars, mutexVars, setVars>>

\* what the calls on a BatchMut leave alone
notBatch == <<cacheVars, lockVars, regionVars, mode, flushing, disk, dindexer,
              scanner, scanned, written, recorder, opens, deviceVars,
              containerVars, pinVars, mutexVars, setVars>>

notMutex == <<cacheVars, lockVars, regionVars, storeVars, batchVars, deviceVars,
              containerVars, pinVars, setVars>>

notSet == <<cacheVars, lockVars, regionVars, storeVars, batchVars, deviceVars,
            containerVars, pinVars, mutexVars>>

vars == <<cacheVars, others>>

\* ----------------------------------------------------------------- helpers
\* A box without data. owed: its data was taken by try_release_handle and
\* the listener has not been called for it.
NoHandle == [inited |-> FALSE, key |-> 0, charge |-> 0, refs |-> 0,
             in_indexer |-> FALSE, in_eviction |-> FALSE, owed |-> FALSE]

Without(s, x) == SelectSeq(s, LAMBDA y : y # x)

SeqToSet(s) == {s[i] : i \in 1..Len(s)}

Restrict(f, D) == [x \in D |-> f[x]]

Extend(f, x, v) == [y \in DOMAIN f \cup {x} |-> IF y = x THEN v ELSE f[y]]

\* The shard as the locked section of an operation sees and changes it; out
\* collects last_reference_entries (to_deallocate).
Shard == [hs |-> handles, indexer |-> indexer, eviction |-> eviction,
          usage |-> usage, out |-> <<>>]

\* ------------------------------------------------------- eviction container
\* A push at the head of the container: C24 sees it.
EvictionPushFront(S, p) ==
    [S EXCEPT !.eviction = <<p>> \o @, !.hs[p].in_eviction = TRUE]

EvictionPush(S, p) ==
    [S EXCEPT !.eviction = Append(@, p), !.hs[p].in_eviction = TRUE]

EvictionRemove(S, p) ==
    [S EXCEPT !.eviction = Without(@, p), !.hs[p].in_eviction = FALSE]

\* pop: the caller checks that the container is not empty
EvictionPop(S) == EvictionRemove(S, Head(S.eviction))

\* acquire (access): FIFO ignores it, LRU promotes to the MRU end
EvictionAcquire(S, p) ==
    IF policy = "lru" /\ S.hs[p].in_eviction
    THEN [S EXCEPT !.eviction = Append(Without(@, p), p)]
    ELSE S

\* release (reinsert): FIFO ignores it, LRU (re-)pushes at the MRU end
EvictionRelease(S, p) ==
    IF policy = "fifo" THEN S
    ELSE [S EXCEPT !.eviction = Append(Without(@, p), p),
                   !.hs[p].in_eviction = TRUE]

EvictionClear(S) ==
    [S EXCEPT !.eviction = <<>>,
              !.hs = [h \in Handles |-> [S.hs[h] EXCEPT !.in_eviction = FALSE]]]

\* ------------------------------------------------------------------ indexer
IndexerRemove(S, p) ==
    [S EXCEPT !.indexer = Restrict(@, DOMAIN @ \ {S.hs[p].key}),
              !.hs[p].in_indexer = FALSE]

\* insert: the handle the key had, if any, leaves the indexer
IndexerInsert(S, p) ==
    LET k == S.hs[p].key
        S1 == IF k \in DOMAIN S.indexer
              THEN [S EXCEPT !.hs[S.indexer[k]].in_indexer = FALSE]
              ELSE S
    IN [S1 EXCEPT !.indexer = Extend(@, k, p), !.hs[p].in_indexer = TRUE]

\* --------------------------------------------------------------- CacheShard
\* A release that forgets usage.fetch_sub: the accounting of C2 sees it.
ReleaseKeepUsage(S, p) ==
    [S EXCEPT !.hs[p] = [NoHandle EXCEPT !.owed = TRUE],
              !.out = Append(@, p)]

\* The tail of try_release_handle: usage -= charge, take() the data, recycle
\* the box, hand the entry to the caller.
Release(S, p) ==
    [S EXCEPT !.usage = @ - S.hs[p].charge,
              !.hs[p] = [NoHandle EXCEPT !.owed = TRUE],
              !.out = Append(@, p)]

Detach(S, p) ==
    LET S1 == IndexerRemove(S, p)
    IN IF S1.hs[p].in_eviction THEN EvictionRemove(S1, p) ELSE S1

\* A try_release_handle that reinserts whatever the usage is: the capacity
\* bound of C1 sees it.
TryReleaseHandleAnyUsage(S, p, reinsert) ==
    IF S.hs[p].refs > 0 THEN S
    ELSE IF S.hs[p].in_indexer
         THEN IF reinsert
              THEN LET R == EvictionRelease(S, p)
                   IN IF R.hs[p].in_eviction THEN R
                      ELSE Release(Detach(R, p), p)
              ELSE Release(Detach(S, p), p)
         ELSE Release(S, p)

\* A try_release_handle that never asks the eviction container to take the
\* handle back: C9 sees it.
TryReleaseHandleNoReinsert(S, p, reinsert) ==
    IF S.hs[p].refs > 0 THEN S
    ELSE IF S.hs[p].in_indexer THEN Release(Detach(S, p), p)
         ELSE Release(S, p)

\* A try_release_handle that pushes the handle itself when the eviction
\* container does not take it back: C10 sees it.
TryReleaseHandlePush(S, p, reinsert) ==
    IF S.hs[p].refs > 0 THEN S
    ELSE IF S.hs[p].in_indexer
         THEN IF reinsert /\ S.usage <= Capacity
              THEN LET R == EvictionRelease(S, p)
                   IN IF R.hs[p].in_eviction THEN R ELSE EvictionPush(R, p)
              ELSE Release(Detach(S, p), p)
         ELSE Release(S, p)

\* A try_release_handle that keeps in the indexer a handle that the eviction
\* container did not take back: C27 sees it.
TryReleaseHandleKeep(S, p, reinsert) ==
    IF S.hs[p].refs > 0 THEN S
    ELSE IF S.hs[p].in_indexer
         THEN IF reinsert /\ S.usage <= Capacity
              THEN EvictionRelease(S, p)
              ELSE Release(Detach(S, p), p)
         ELSE Release(S, p)

TryReleaseHandle(S, p, reinsert) ==
    IF S.hs[p].refs > 0 THEN S
    ELSE IF S.hs[p].in_indexer
         THEN IF reinsert /\ S.usage <= Capacity
              THEN LET R == EvictionRelease(S, p)
                   IN IF R.hs[p].in_eviction THEN R
                      ELSE Release(Detach(R, p), p)
              ELSE Release(Detach(S, p), p)
         ELSE Release(S, p)

TryReleaseExternalHandle(S, p) ==
    TryReleaseHandle([S EXCEPT !.hs[p].refs = @ - 1], p, TRUE)

\* An evict that takes its victims out of the indexer as well: C25 sees it.
RECURSIVE EvictFromIndexer(_, _)
EvictFromIndexer(S, charge) ==
    IF S.usage + charge > Capacity /\ S.eviction # <<>>
    THEN LET evicted == Head(S.eviction)
         IN EvictFromIndexer(
                TryReleaseHandle(IndexerRemove(EvictionPop(S), evicted),
                                 evicted, FALSE), charge)
    ELSE S

RECURSIVE Evict(_, _)
Evict(S, charge) ==
    IF S.usage + charge > Capacity /\ S.eviction # <<>>
    THEN LET evicted == Head(S.eviction)
         IN Evict(TryReleaseHandle(EvictionPop(S), evicted, FALSE), charge)
    ELSE S

\* An insert that leaves the handle it replaces in the eviction container
\* and does not try to release it: C7 sees it.
ShardInsertKeepOld(S, p, k, charge) ==
    LET S0 == [S EXCEPT !.hs[p] = [NoHandle EXCEPT !.inited = TRUE, !.key = k,
                                                   !.charge = charge]]
        S1 == Evict(S0, charge)
        S2 == IndexerInsert(S1, p)
        S4 == EvictionPush(S2, p)
    IN [S4 EXCEPT !.usage = @ + charge, !.hs[p].refs = @ + 1]

ShardInsert(S, p, k, charge) ==
    LET S0 == [S EXCEPT !.hs[p] = [NoHandle EXCEPT !.inited = TRUE, !.key = k,
                                                   !.charge = charge]]
        S1 == Evict(S0, charge)
        old == IF k \in DOMAIN S1.indexer THEN S1.indexer[k] ELSE 0
        S2 == IndexerInsert(S1, p)
        S3 == IF old = 0 THEN S2
              ELSE TryReleaseHandle(
                       IF S2.hs[old].in_eviction THEN EvictionRemove(S2, old)
                       ELSE S2, old, FALSE)
        S4 == EvictionPush(S3, p)
    IN [S4 EXCEPT !.usage = @ + charge, !.hs[p].refs = @ + 1]

ShardGet(S, p) ==
    EvictionAcquire([S EXCEPT !.hs[p].refs = @ + 1], p)

\* A remove that leaves the handle in the eviction container: C8 sees it.
ShardRemoveKeepPolicy(S, p) ==
    LET S1 == IndexerRemove(S, p)
    IN [S1 EXCEPT !.hs[p].refs = @ + 1]

ShardRemove(S, p) ==
    LET S1 == IndexerRemove(S, p)
        S2 == IF S1.hs[p].in_eviction THEN EvictionRemove(S1, p) ELSE S1
    IN [S2 EXCEPT !.hs[p].refs = @ + 1]

RECURSIVE ReleaseAll(_, _)
ReleaseAll(S, ps) ==
    IF ps = <<>> THEN S
    ELSE ReleaseAll(TryReleaseHandle(S, Head(ps), FALSE), Tail(ps))

\* A clear that leaves the eviction container as it is: C26 sees it.
ShardClearKeepPolicy(S) ==
    LET ks == DOMAIN S.indexer
        ptrs == {S.indexer[k] : k \in ks}
        S1 == [S EXCEPT !.indexer = Restrict(@, {}),
                        !.hs = [h \in Handles |->
                                  IF h \in ptrs
                                  THEN [S.hs[h] EXCEPT !.in_indexer = FALSE]
                                  ELSE S.hs[h]]]
        order == CHOOSE s \in [1..Cardinality(ptrs) -> ptrs] :
                     \A i, j \in 1..Cardinality(ptrs) : i < j => s[i] < s[j]
    IN ReleaseAll(S1, order)

\* indexer.drain() and eviction.clear(), then try_release_handle on each
\* handle drained from the indexer
ShardClear(S) ==
    LET ks == DOMAIN S.indexer
        ptrs == {S.indexer[k] : k \in ks}
        S1 == [S EXCEPT !.indexer = Restrict(@, {}),
                        !.hs = [h \in Handles |->
                                  IF h \in ptrs
                                  THEN [S.hs[h] EXCEPT !.in_indexer = FALSE]
                                  ELSE S.hs[h]]]
        S2 == EvictionClear(S1)
        order == CHOOSE s \in [1..Cardinality(ptrs) -> ptrs] :
                     \A i, j \in 1..Cardinality(ptrs) : i < j => s[i] < s[j]
    IN ReleaseAll(S2, order)

\* ------------------------------------------------------------------ listener
\* on_release(key, value, context, charge) for each entry of to_deallocate
OnRelease(hs, rel) ==
    [h \in Handles |-> IF h \in rel THEN [hs[h] EXCEPT !.owed = FALSE]
                       ELSE hs[h]]

\* ------------------------------------------------------------- state update
Commit(S, rel) ==
    /\ handles' = OnRelease(S.hs, rel)
    /\ indexer' = S.indexer
    /\ eviction' = S.eviction
    /\ usage' = S.usage

\* the clone calls running on h
Cloning(h) == {i \in 1..Len(cloning) : cloning[i].h = h}

\* Entry objects on h a client can drop: the one insert_with_context is about
\* to return is not the client's yet, and clone borrows the entry it copies.
Droppable(h) == entries[h] - (IF h \in DOMAIN sending THEN 1 ELSE 0)
                           - (IF Cloning(h) # {} THEN 1 ELSE 0)

RECURSIVE Sum(_, _)
Sum(f, D) == IF D = {} THEN 0
             ELSE LET x == CHOOSE y \in D : TRUE IN f[x] + Sum(f, D \ {x})

\* Entry objects alive, in clients' hands, in channels, or about to be returned
LiveEntries == Sum(entries, Handles)

\* to_deallocate of the inserts that have not called the listener yet
Pending == UNION {sending[q].dealloc : q \in DOMAIN sending}

\* the boxes insert can take: in the object pool or newly allocated
FreeHandles == {h \in Handles : ~handles[h].inited /\ h \notin Pending}

Min(s) == CHOOSE x \in s : \A y \in s : x <= y

\* ------------------------------------------------------- large-object store
\* The writer of the store (BatchMut), the device as bytes per region, the
\* Indexer and the recovery that scans the regions with RegionScanner.

StoreRegionSize == RegionSlots * Align

BatchCapacity == BatchSlots * Align

\* the bytes of a device
Zero == [t |-> "zero"]

Junk == [t |-> "junk"]

Byte(b) == [t |-> "byte", b |-> b]

\* the hash of a key, without collision on StoreKeys
HashOf(k) == 2 * k + 1

\* bits::align_up
AlignUp(align, v) == ((v + align - 1) \div align) * align

\* EntryHeader::entry_len
EntryLen(header) == HeaderLen + header.key_len + header.value_len

\* the bytes of EntryHeader::write: the fields, then the rest of the header
HeaderBytes(header) ==
    <<[t |-> "header", hash |-> header.hash, sequence |-> header.sequence,
       key_len |-> header.key_len, value_len |-> header.value_len]>>
    \o [i \in 1..(HeaderLen - 1) |-> [t |-> "hcont"]]

\* EntryHeader::read(buf).ok(): the header, or none if the bytes are not one
NoHeader == [t |-> "none"]

HeaderRead(buf) ==
    IF /\ Len(buf) = HeaderLen
       /\ buf[1].t = "header"
       /\ \A i \in 2..HeaderLen : buf[i].t = "hcont"
    THEN [hash |-> buf[1].hash, sequence |-> buf[1].sequence,
          key_len |-> buf[1].key_len, value_len |-> buf[1].value_len]
    ELSE NoHeader

\* EntrySerializer::serialize of the key k and of the value made of n bytes
\* k: the value, then the key
Serialize(k, n) == [i \in 1..n |-> Byte(k)] \o <<Byte(k)>>

\* EntryDeserializer::deserialize of the bytes after a header
Deserialize(bytes, header) ==
    [key |-> bytes[header.value_len + 1].b, value |-> header.value_len]

Zeros(n) == [i \in 1..n |-> Zero]

\* a BatchMut without group
NoBatch == [len |-> 0, buffer |-> <<>>, groups |-> <<>>, tombstones |-> <<>>,
            waiters |-> <<>>]

\* BatchMut::append_group on the clean region r
AppendGroup(b, r) ==
    [b EXCEPT !.groups = Append(@, [region |-> r, offset |-> 0, len |-> 0,
                                    is_full |-> FALSE, indices |-> <<>>,
                                    start |-> b.len])]

\* BatchMut::advance needs a new group for len more bytes
GroupFull(b, len) ==
    LET g == b.groups[Len(b.groups)]
    IN g.offset + g.len + len > StoreRegionSize

\* An advance that stays in the group whatever the space left in the region:
\* C29 sees it.
BatchAdvanceSameGroup(b, len, r) == [b EXCEPT !.len = @ + len]

\* BatchMut::advance, r the region of a new group
BatchAdvance(b, len, r) ==
    LET last == Len(b.groups)
        b1 == IF GroupFull(b, len)
              THEN AppendGroup([b EXCEPT !.groups[last].is_full = TRUE], r)
              ELSE b
    IN [b1 EXCEPT !.len = @ + len]

\* A place counted from the start of the group, not of the region: C20 sees it.
GroupOffsetNoBase(g) == g.len

\* the place of an entry in its group, as BatchMut::entry computes it
GroupOffset(g) == g.offset + g.len

\* BatchMut::entry for an entry that is not outdated and that fits: header
\* and bytes written at len, advance, the index and the space in the last
\* group
BatchEntry(b, k, n, seq, r) ==
    LET header == [hash |-> HashOf(k), sequence |-> seq, key_len |-> 1,
                   value_len |-> n]
        aligned == AlignUp(Align, EntryLen(header))
        bytes == HeaderBytes(header) \o Serialize(k, n)
        b1 == [b EXCEPT !.buffer = @ \o bytes \o Zeros(aligned - Len(bytes))]
        b2 == BatchAdvance(b1, aligned, r)
        last == Len(b2.groups)
        g == b2.groups[last]
    IN [b2 EXCEPT !.groups[last] =
           [g EXCEPT !.indices = Append(@, [hash |-> header.hash,
                                            address |-> [region |-> 0,
                                                         offset |-> GroupOffset(g),
                                                         len |-> EntryLen(header),
                                                         sequence |-> seq]]),
                     !.len = @ + aligned]]

\* A reinsertion that gives its group the length of the bytes without the
\* padding: C28 sees it.
BatchReinsertionUnpadded(b, hash, seq, bytes, r) ==
    LET aligned == AlignUp(Align, Len(bytes))
        b1 == [b EXCEPT !.buffer = @ \o bytes \o Zeros(aligned - Len(bytes))]
        b2 == BatchAdvance(b1, aligned, r)
        last == Len(b2.groups)
        g == b2.groups[last]
    IN [b2 EXCEPT !.groups[last] =
           [g EXCEPT !.indices = Append(@, [hash |-> hash,
                                            address |-> [region |-> 0,
                                                         offset |-> g.offset + g.len,
                                                         len |-> Len(bytes),
                                                         sequence |-> seq]]),
                     !.len = @ + Len(bytes)]]

\* BatchMut::reinsertion of the bytes of an entry of the device, for a hash
\* that the indexer holds and bytes that fit: the bytes copied at len,
\* advance, the index with the sequence of the reinsertion
BatchReinsertion(b, hash, seq, bytes, r) ==
    LET aligned == AlignUp(Align, Len(bytes))
        b1 == [b EXCEPT !.buffer = @ \o bytes \o Zeros(aligned - Len(bytes))]
        b2 == BatchAdvance(b1, aligned, r)
        last == Len(b2.groups)
        g == b2.groups[last]
    IN [b2 EXCEPT !.groups[last] =
           [g EXCEPT !.indices = Append(@, [hash |-> hash,
                                            address |-> [region |-> 0,
                                                         offset |-> g.offset + g.len,
                                                         len |-> Len(bytes),
                                                         sequence |-> seq]]),
                     !.len = @ + aligned]]

\* BatchMut::tombstone
BatchTombstone(b, tombstone) == [b EXCEPT !.tombstones = Append(@, tombstone)]

\* BatchMut::wait
BatchWait(b, tx) == [b EXCEPT !.waiters = Append(@, tx)]

\* BatchMut::is_empty
BatchIsEmpty(b) ==
    /\ b.tombstones = <<>>
    /\ \A i \in 1..Len(b.groups) : b.groups[i].len = 0
    /\ b.waiters = <<>>

\* the groups of the Batch that BatchMut::rotate returns, with their bytes
RotatedGroups(b) ==
    [i \in 1..Len(b.groups) |->
        LET g == b.groups[i]
        IN [region |-> g.region, offset |-> g.offset, len |-> g.len,
            is_full |-> g.is_full, indices |-> g.indices,
            bytes |-> SubSeq(b.buffer, g.start + 1, g.start + g.len)]]

\* A rotate that leaves the tombstones in the BatchMut: C30 sees it.
RotatedBatchKeepTombstones(b) ==
    LET last == b.groups[Len(b.groups)]
    IN [len |-> 0, buffer |-> <<>>,
        groups |-> <<[region |-> last.region, offset |-> last.offset + last.len,
                      len |-> 0, is_full |-> FALSE, indices |-> <<>>,
                      start |-> 0]>>,
        tombstones |-> b.tombstones, waiters |-> <<>>]

\* the BatchMut after rotate: one group on what is left of the last region
RotatedBatch(b) ==
    LET last == b.groups[Len(b.groups)]
    IN [len |-> 0, buffer |-> <<>>,
        groups |-> <<[region |-> last.region, offset |-> last.offset + last.len,
                      len |-> 0, is_full |-> FALSE, indices |-> <<>>,
                      start |-> 0]>>,
        tombstones |-> <<>>, waiters |-> <<>>]

\* Indexer::insert: an address of a lower sequence than the stored one is
\* turned down, else the address is stored
DiskIndexerInsert(ix, hash, addr) ==
    IF hash \in DOMAIN ix /\ ix[hash].sequence > addr.sequence
    THEN ix
    ELSE Extend(ix, hash, addr)

\* the indices of a group go to the indexer one after the other, with the
\* region of the group
RECURSIVE Publish(_, _, _)
Publish(ix, id, indices) ==
    IF indices = <<>> THEN ix
    ELSE LET e == Head(indices)
         IN Publish(DiskIndexerInsert(ix, e.hash,
                                      [e.address EXCEPT !.region = id]),
                    id, Tail(indices))

\* a device write of bytes at offset of a region
DeviceWrite(bytes_of_region, offset, bytes) ==
    [i \in 1..StoreRegionSize |->
        IF i > offset /\ i <= offset + Len(bytes)
        THEN bytes[i - offset] ELSE bytes_of_region[i]]

\* a device read of len bytes at offset of a region, cut at its end
DeviceRead(bytes_of_region, offset, len) ==
    SubSeq(bytes_of_region, offset + 1, Min({offset + len, StoreRegionSize}))

\* RegionScanner::current
ScannerCurrent(r, offset) ==
    IF offset >= StoreRegionSize THEN NoHeader
    ELSE HeaderRead(DeviceRead(disk[r], offset, HeaderLen))

\* An info whose address does not carry the sequence: C18 sees it.
ScannerInfoNoSequence(r, offset, header) ==
    [hash |-> header.hash,
     sequence |-> header.sequence,
     addr |-> [region |-> r, offset |-> offset, len |-> EntryLen(header),
               sequence |-> 0]]

\* RegionScanner::info
ScannerInfo(r, offset, header) ==
    [hash |-> header.hash,
     sequence |-> header.sequence,
     addr |-> [region |-> r, offset |-> offset, len |-> EntryLen(header),
               sequence |-> header.sequence]]

\* A step that does not align: C19 sees it.
ScannerStepUnaligned(offset, header) == offset + EntryLen(header)

\* RegionScanner::step
ScannerStep(offset, header) == offset + AlignUp(Align, EntryLen(header))

\* ------------------------------------------------------ device options
\* DirectFsDeviceOptionsBuilder and DirectFileDeviceOptionsBuilder; ALIGN is
\* Align here.
DefaultFileSize == 64 * 1024 * 1024

\* no file or region size was given to the builder
NoSize == 0 - 1

\* the capacities given, or found as 80% of the free space: small ones, and
\* some around the default file size
CapacityArgs ==
    0..MaxCapacityArg
    \cup {DefaultFileSize - 1, DefaultFileSize, 2 * DefaultFileSize + Align + 1}

FileSizeArgs == {NoSize} \cup 0..MaxFileSizeArg

\* build() did not return: it panicked
Panic == [t |-> "panic"]

\* the closure align_v of build(), value - value % align, panics on the
\* remainder by zero
AlignVPanics(value, align) == align = 0

AlignV(value, align) == value - (value % align)

\* DirectFsDeviceOptionsBuilder::build with capacity and file_size, and
\* DirectFileDeviceOptionsBuilder::build with capacity and region_size
BuildOptions(capacity_arg, size_arg) ==
    LET capacity == AlignV(capacity_arg, Align)
        given == IF size_arg = NoSize THEN DefaultFileSize ELSE size_arg
        file_size == AlignV(Min({given, capacity}), Align)
    IN IF AlignVPanics(capacity, file_size) THEN Panic
       ELSE [t |-> "options", capacity |-> AlignV(capacity, file_size),
             file_size |-> file_size]

\* DirectFsDeviceOptions::verify and DirectFileDeviceOptions::verify
Verify(options) ==
    /\ ~(options.file_size = 0 \/ options.file_size % Align # 0)
    /\ ~(options.capacity = 0 \/ options.capacity % options.file_size # 0)

\* ------------------------------------------------------------- Container
\* container.rs: the data of an item is a Vec<u8>, kept here as its length,
\* and the weighter of test_container_simple is the length.
Indices == 1..MaxIndex

Weights == {0, 1, BigWeight}

NoData == 0 - 1

Weighter(data) == data

PoolCount == 2 ^ PoolCountBits

PoolIds == 0..(PoolCount - 1)

\* Container::new: every pool gets capacity >> pool_count_bits and starts
\* empty; handles is index -> weight, policy the indices from the next to
\* evict to the most recently used
NewPool ==
    [capacity |-> ContainerCapacity \div PoolCount, size |-> 0,
     handles |-> <<>>, policy |-> <<>>]

\* XxHash64 of the index: a fixed spread of the indices over the pools, three
\* indices out of four in the same pool
IndexHash(index) == index \div 4

\* Container::pool
PoolOf(index) == IndexHash(index) % PoolCount

\* Lru::remove of the handle of an index
PolicyRemove(lru, index) == SelectSeq(lru, LAMBDA i : i # index)

\* Lru::insert, at the most recently used end
PolicyInsert(lru, index) == Append(lru, index)

\* Lru::access with update_on_read
PolicyAccess(lru, index) == Append(PolicyRemove(lru, index), index)

\* BTreeMap::remove on handles
HandlesRemove(h, index) == [i \in (DOMAIN h) \ {index} |-> h[i]]

\* BTreeMap::insert on handles
HandlesInsert(h, index, weight) ==
    [i \in (DOMAIN h) \cup {index} |-> IF i = index THEN weight ELSE h[i]]

\* make_room that leaves the size as it was
RECURSIVE MakeRoomKeepSize(_, _, _)
MakeRoomKeepSize(pool, weight, order) ==
    IF order = <<>> THEN pool
    ELSE IF pool.size + weight <= pool.capacity \/ pool.size = 0 THEN pool
    ELSE LET index == Head(order)
         IN MakeRoomKeepSize([pool EXCEPT
                                !.handles = HandlesRemove(@, index),
                                !.policy = PolicyRemove(@, index)],
                             weight, Tail(order))

\* Pool::make_room over what is left of policy.eviction_iter(): the indices
\* removed from handles are removed from the policy after the loop
RECURSIVE MakeRoom(_, _, _)
MakeRoom(pool, weight, order) ==
    IF order = <<>> THEN pool
    ELSE IF pool.size + weight <= pool.capacity \/ pool.size = 0 THEN pool
    ELSE LET index == Head(order)
         IN MakeRoom([pool EXCEPT
                        !.handles = HandlesRemove(@, index),
                        !.size = @ - pool.handles[index],
                        !.policy = PolicyRemove(@, index)],
                     weight, Tail(order))

\* Pool::insert, without the store
PoolInsert(pool, index, weight) ==
    [pool EXCEPT !.policy = PolicyInsert(@, index),
                 !.handles = HandlesInsert(@, index, weight),
                 !.size = @ + weight]

\* Pool::remove, without the store
PoolRemove(pool, index) ==
    [pool EXCEPT !.handles = HandlesRemove(@, index),
                 !.policy = PolicyRemove(@, index),
                 !.size = @ - pool.handles[index]]

\* ---------------------------------------------------------------- operations
Init ==
    /\ policy \in {"fifo", "lru"}
    /\ handles = [h \in Handles |-> NoHandle]
    /\ indexer = <<>>
    /\ eviction = <<>>
    /\ usage = 0
    /\ waiters = <<>>
    /\ entries = [h \in Handles |-> 0]
    /\ sending = <<>>
    /\ loaders = [k \in Keys |-> 0]
    /\ joins = [k \in Keys |-> 0]
    /\ cloning = <<>>
    /\ lock = 0
    /\ pc = [t \in Threads |-> "idle"]
    /\ region = [version |-> 1, buffer |-> FALSE, len |-> 0, writers |-> 0,
                 buffered_readers |-> 0, physical_readers |-> 0]
    /\ guard = <<>>
    /\ slices = [write |-> 0, buffered |-> 0, owned |-> 0]
    /\ reading = 0
    /\ futures = [f \in Futures |-> NoFuture]
    /\ mode = "open"
    /\ sequence = 1
    /\ disk = [r \in Regions |->
                  [i \in 1..StoreRegionSize |-> IF r = 1 THEN Zero ELSE Junk]]
    /\ batch = AppendGroup(NoBatch, 1)
    /\ clean = Regions \ {1}
    /\ flushing = <<>>
    /\ dindexer = <<>>
    /\ scanner = [region |-> 0, offset |-> 0]
    /\ scanned = [r \in Regions |-> <<>>]
    /\ written = [r \in Regions |-> <<>>]
    /\ recorder = <<>>
    /\ opens = 0
    /\ accepted = [indices |-> <<>>, tombstones |-> <<>>, waiters |-> <<>>]
    /\ handed = <<>>
    /\ rotated = [t |-> "not called"]
    /\ built = [t |-> "not called"]
    /\ pools = [id \in PoolIds |-> NewPool]
    /\ store = [index \in Indices |-> NoData]
    /\ ret = [op |-> "new"]
    /\ pinned = [h \in Handles |-> "none"]
    /\ mutex = [s \in ShardIds |-> 0]
    /\ op = [t \in Threads |-> Idle]
    /\ sets = [id \in SetIds |-> [readers |-> 0, writer |-> FALSE, bloom |-> 0,
                                  applied |-> 0]]
    /\ cache = <<>>
    /\ setdisk = [id \in SetIds |-> 0]
    /\ tasks = [t \in Tasks |-> NoTask]

\* insert_with_context up to the release of the shard lock; without waiters
\* the listener calls and the return follow at once.
InsertWithContext(k, charge) ==
    /\ FreeHandles # {}
    /\ LET p == Min(FreeHandles)
           ws == IF k \in DOMAIN waiters THEN waiters[k] ELSE <<>>
           S1 == ShardInsert(Shard, p, k, charge)
           S == [S1 EXCEPT !.hs[p].refs = @ + Len(ws)]
       IN /\ waiters' = Restrict(waiters, DOMAIN waiters \ {k})
          /\ entries' = [entries EXCEPT ![p] = 1]
          /\ IF ws = <<>>
             THEN /\ Commit(S, SeqToSet(S.out))
                  /\ sending' = sending
             ELSE /\ Commit(S, {})
                  /\ sending' = Extend(sending, p,
                                       [ws |-> ws, dealloc |-> SeqToSet(S.out)])
    /\ UNCHANGED <<policy, cloning, others>>

Insert(k, charge) ==
    /\ InsertWithContext(k, charge)
    /\ UNCHANGED <<loaders, joins>>

\* GenericCache::get
Get(k) ==
    /\ k \in DOMAIN indexer
    /\ LiveEntries < MaxEntries
    /\ LET p == indexer[k]
       IN /\ Commit(ShardGet(Shard, p), {})
          /\ entries' = [entries EXCEPT ![p] = @ + 1]
    /\ UNCHANGED <<policy, waiters, sending, loaders, joins, cloning, others>>

\* GenericCache::touch
Touch(k) ==
    /\ k \in DOMAIN indexer
    /\ Commit(EvictionAcquire(Shard, indexer[k]), {})
    /\ UNCHANGED <<policy, waiters, entries, sending, loaders, joins, cloning, others>>

\* GenericCache::remove: the removed handle is returned as an Entry
Remove(k) ==
    /\ k \in DOMAIN indexer
    /\ LET p == indexer[k]
       IN /\ Commit(ShardRemove(Shard, p), {})
          /\ entries' = [entries EXCEPT ![p] = @ + 1]
    /\ UNCHANGED <<policy, waiters, sending, loaders, joins, cloning, others>>

\* GenericCache::pop and pop_corase with one shard: CacheShard::pop on the
\* shard when its usage is not 0
Pop ==
    /\ usage > 0
    /\ eviction # <<>>
    /\ LET p == Head(eviction)
       IN /\ Commit(ShardRemove(EvictionPop(Shard), p), {})
          /\ entries' = [entries EXCEPT ![p] = @ + 1]
    /\ UNCHANGED <<policy, waiters, sending, loaders, joins, cloning, others>>

\* GenericCache::clear: to_deallocate is filled and dropped, the listener is
\* not called
Clear ==
    /\ DOMAIN indexer # {}
    /\ Commit(ShardClear(Shard), {})
    /\ UNCHANGED <<policy, waiters, entries, sending, loaders, joins, cloning, others>>

\* GenericCacheEntry::clone
Clone(p) ==
    /\ Droppable(p) > 0
    /\ LiveEntries < MaxEntries
    /\ handles' = [handles EXCEPT ![p].refs = @ + 1]
    /\ entries' = [entries EXCEPT ![p] = @ + 1]
    /\ UNCHANGED <<policy, indexer, eviction, usage, waiters, sending, loaders,
                   joins, cloning, others>>

\* GenericCacheEntry::clone run by a thread while other threads use the cache:
\* inc_refs is a read and a write of refs, and the shard lock is not taken.
\* The read:
CloneLoad(p) ==
    /\ entries[p] - (IF p \in DOMAIN sending THEN 1 ELSE 0) > 0
    /\ Len(cloning) < MaxCloning
    /\ LiveEntries + Len(cloning) < MaxEntries
    /\ cloning' = Append(cloning, [h |-> p, refs |-> handles[p].refs])
    /\ UNCHANGED <<policy, handles, indexer, eviction, usage, waiters, entries,
                   sending, loaders, joins, others>>

\* The write, and the new Entry
CloneStore(i) ==
    /\ i \in 1..Len(cloning)
    /\ LET c == cloning[i]
       IN /\ handles' = [handles EXCEPT ![c.h].refs = c.refs + 1]
          /\ entries' = [entries EXCEPT ![c.h] = @ + 1]
    /\ cloning' = [j \in 1..(Len(cloning) - 1) |->
                      IF j < i THEN cloning[j] ELSE cloning[j + 1]]
    /\ UNCHANGED <<policy, indexer, eviction, usage, waiters, sending, loaders,
                   joins, others>>

\* GenericCacheEntry::drop: GenericCache::try_release_external_handle
Drop(p) ==
    /\ Droppable(p) > 0
    /\ LET S == TryReleaseExternalHandle(Shard, p)
       IN Commit(S, SeqToSet(S.out))
    /\ entries' = [entries EXCEPT ![p] = @ - 1]
    /\ UNCHANGED <<policy, waiters, sending, loaders, joins, cloning, others>>

\* GenericCache::entry, a hit
EntryHit(k) ==
    /\ k \in DOMAIN indexer
    /\ LiveEntries < MaxEntries
    /\ LET p == indexer[k]
       IN /\ Commit(ShardGet(Shard, p), {})
          /\ entries' = [entries EXCEPT ![p] = @ + 1]
    /\ UNCHANGED <<policy, waiters, sending, loaders, joins, cloning, others>>

\* GenericCache::entry, Occupied: a sender is queued, the future is Wait;
\* at most n senders are followed
EntryWaitUpTo(k, n) ==
    /\ k \notin DOMAIN indexer
    /\ k \in DOMAIN waiters
    /\ Len(waiters[k]) < n
    /\ waiters' = [waiters EXCEPT ![k] = Append(@, TRUE)]
    /\ UNCHANGED <<policy, handles, indexer, eviction, usage, entries,
                   sending, loaders, joins, cloning, others>>

EntryWait(k) == EntryWaitUpTo(k, MaxWaiters)

\* An entry() that spawns a loader for a key that has one: C4 sees it.
EntryMissAgain(k) ==
    /\ k \notin DOMAIN indexer
    /\ loaders[k] < MaxLoaders
    /\ waiters' = Extend(waiters, k, <<>>)
    /\ loaders' = [loaders EXCEPT ![k] = @ + 1]
    /\ joins' = [joins EXCEPT ![k] = @ + 1]
    /\ UNCHANGED <<policy, handles, indexer, eviction, usage, entries, sending,
                   cloning, others>>

\* GenericCache::entry, Vacant: the loader task is spawned, the future is Miss
EntryMiss(k) ==
    /\ k \notin DOMAIN indexer
    /\ k \notin DOMAIN waiters
    /\ loaders[k] < MaxLoaders
    /\ waiters' = Extend(waiters, k, <<>>)
    /\ loaders' = [loaders EXCEPT ![k] = @ + 1]
    /\ joins' = [joins EXCEPT ![k] = @ + 1]
    /\ UNCHANGED <<policy, handles, indexer, eviction, usage, entries, sending,
                   cloning, others>>

Entry(k) == EntryHit(k) \/ EntryWait(k) \/ EntryMiss(k)

\* a loader task of k ends: it is one whose JoinHandle is held by a Miss
\* future, or one whose Miss future was dropped
TaskEnd(k) ==
    /\ loaders[k] > 0
    /\ loaders' = [loaders EXCEPT ![k] = @ - 1]
    /\ \E j \in {joins[k] - 1, joins[k]} :
          /\ j >= 0
          /\ j <= loaders[k] - 1
          /\ joins' = [joins EXCEPT ![k] = j]

\* the loader task: the future returned Ok, the task inserts
LoaderOk(k, charge) ==
    /\ TaskEnd(k)
    /\ InsertWithContext(k, charge)

\* A failed loader that leaves the waiters entry of its key: C11 sees it.
LoaderErrKeepWaiters(k) ==
    /\ TaskEnd(k)
    /\ UNCHANGED <<policy, handles, indexer, eviction, usage, waiters, entries,
                   sending, cloning, others>>

\* the loader task: the future returned Err, the task removes waiters[key]
LoaderErr(k) ==
    /\ TaskEnd(k)
    /\ waiters' = Restrict(waiters, DOMAIN waiters \ {k})
    /\ UNCHANGED <<policy, handles, indexer, eviction, usage, entries, sending,
                   cloning, others>>

\* A Miss future whose drop aborts its loader task: C13 sees it.
MissDropAborts(k) ==
    /\ joins[k] > 0
    /\ joins' = [joins EXCEPT ![k] = @ - 1]
    /\ loaders' = [loaders EXCEPT ![k] = @ - 1]
    /\ UNCHANGED <<policy, handles, indexer, eviction, usage, waiters, entries,
                   sending, cloning, others>>

\* a Miss future is dropped before its loader task ended: the JoinHandle of
\* tokio::spawn is dropped, which detaches the task
MissDrop(k) ==
    /\ joins[k] > 0
    /\ joins' = [joins EXCEPT ![k] = @ - 1]
    /\ UNCHANGED <<policy, handles, indexer, eviction, usage, waiters, entries,
                   sending, loaders, cloning, others>>

\* a Wait future is dropped while its sender is queued in the waiters map
WaitDropQueued(k, i) ==
    /\ k \in DOMAIN waiters
    /\ i \in 1..Len(waiters[k])
    /\ waiters[k][i]
    /\ waiters' = [waiters EXCEPT ![k][i] = FALSE]
    /\ UNCHANGED <<policy, handles, indexer, eviction, usage, entries,
                   sending, loaders, joins, cloning, others>>

\* a Wait future is dropped after the insert took its sender, before the send
WaitDropSending(p, i) ==
    /\ p \in DOMAIN sending
    /\ i \in 1..Len(sending[p].ws)
    /\ sending[p].ws[i]
    /\ sending' = [sending EXCEPT ![p].ws[i] = FALSE]
    /\ UNCHANGED <<policy, handles, indexer, eviction, usage, waiters,
                   entries, loaders, joins, cloning, others>>

\* A send to a dropped receiver that keeps the reserved reference: C14 sees it.
DeliverKeepRef(p) ==
    /\ p \in DOMAIN sending
    /\ LET ws == sending[p].ws
       IN /\ entries' = IF Head(ws) THEN [entries EXCEPT ![p] = @ + 1]
                        ELSE entries
          /\ IF Tail(ws) = <<>>
             THEN /\ sending' = Restrict(sending, DOMAIN sending \ {p})
                  /\ Commit(Shard, sending[p].dealloc)
             ELSE /\ sending' = [sending EXCEPT ![p].ws = Tail(ws)]
                  /\ Commit(Shard, {})
    /\ UNCHANGED <<policy, waiters, loaders, joins, cloning, others>>

\* insert_with_context after the lock: waiter.send of the next entry; after
\* the last one the listener is called for to_deallocate and insert returns
Deliver(p) ==
    /\ p \in DOMAIN sending
    /\ LET ws == sending[p].ws
           S == IF Head(ws) THEN Shard ELSE TryReleaseExternalHandle(Shard, p)
           rel == SeqToSet(S.out)
       IN /\ entries' = IF Head(ws) THEN [entries EXCEPT ![p] = @ + 1]
                        ELSE entries
          /\ IF Tail(ws) = <<>>
             THEN /\ sending' = Restrict(sending, DOMAIN sending \ {p})
                  /\ Commit(S, rel \cup sending[p].dealloc)
             ELSE /\ sending' = [sending EXCEPT ![p].ws = Tail(ws)]
                  /\ Commit(S, rel)
    /\ UNCHANGED <<policy, waiters, loaders, joins, cloning, others>>

\* The operations the cache offers besides entry()
Next ==
    \/ \E k \in Keys, c \in Charges : Insert(k, c)
    \/ \E k \in Keys : Get(k)
    \/ \E k \in Keys : Touch(k)
    \/ \E k \in Keys : Remove(k)
    \/ Pop
    \/ Clear
    \/ \E p \in Handles : Clone(p)
    \/ \E p \in Handles : Drop(p)

Spec == Init /\ [][Next]_vars

\* The same with the single-flight fetch of the keys of FetchKeys
NextFetch ==
    \/ Next
    \/ \E k \in FetchKeys : Entry(k)
    \/ \E k \in FetchKeys, c \in Charges : LoaderOk(k, c)
    \/ \E k \in FetchKeys : LoaderErr(k)
    \/ \E k \in FetchKeys, i \in 1..MaxWaiters : WaitDropQueued(k, i)
    \/ \E p \in Handles, i \in 1..MaxWaiters : WaitDropSending(p, i)
    \/ \E p \in Handles : Deliver(p)

\* the cache of the fetch is built with the LRU eviction
InitFetch == Init /\ policy = "lru"

SpecFetch == InitFetch /\ [][NextFetch]_vars

\* The fetch of the keys of FetchKeys among inserts, removes and drops of
\* entries, with loaders that end and sends that are made
NextWait ==
    \/ \E k \in FetchKeys : Insert(k, 1)
    \/ \E k \in FetchKeys : Remove(k)
    \/ \E p \in Handles : Drop(p)
    \/ \E k \in FetchKeys : Entry(k)
    \/ \E k \in FetchKeys : LoaderOk(k, 1)
    \/ \E k \in FetchKeys : LoaderErr(k)
    \/ \E p \in Handles : Deliver(p)

\* a loader task that runs returns Ok or Err
LoaderEnds == \E k \in FetchKeys : LoaderErr(k) \/ LoaderOk(k, 1)

\* the tasks are scheduled fairly: a loader that can end does end, and
\* every insert that has left the lock section sends to its waiters
SpecWait ==
    /\ InitFetch
    /\ [][NextWait]_vars
    /\ WF_vars(LoaderEnds)
    /\ \A p \in Handles : WF_vars(Deliver(p))

\* The fetch of the keys of FetchKeys with futures that are dropped early:
\* Miss futures before the loader ends, Wait futures before the insert of
\* the loader; a key leaves the cache by remove
NextCancel ==
    \/ \E k \in FetchKeys : Remove(k)
    \/ \E p \in Handles : Drop(p)
    \/ \E k \in FetchKeys : EntryWaitUpTo(k, MaxQueue)
    \/ \E k \in FetchKeys : EntryMiss(k)
    \/ \E k \in FetchKeys : LoaderOk(k, 1)
    \/ \E k \in FetchKeys : LoaderErr(k)
    \/ \E k \in FetchKeys : MissDrop(k)
    \/ \E k \in FetchKeys, i \in 1..MaxQueue : WaitDropQueued(k, i)
    \/ \E p \in Handles, i \in 1..MaxQueue : WaitDropSending(p, i)
    \/ \E p \in Handles : Deliver(p)

SpecCancel == Init /\ [][NextCancel]_vars

\* An Entry points to a box whose data was taken: what a thread does with
\* such an Entry is a use after free, the model follows the run up to here.
Dangling == \E h \in Handles : entries[h] > 0 /\ ~handles[h].inited

\* The operations run by several threads, clone in its two steps.
ThreadInsert(k, charge) == ~Dangling /\ Insert(k, charge)

ThreadGet(k) == ~Dangling /\ Get(k)

ThreadRemove(k) == ~Dangling /\ Remove(k)

\* refs of every handle counts the Entry objects on it
Exact == \A h \in Handles : handles[h].refs = entries[h]

\* clone calls race until an update of refs has been lost
ThreadCloneLoad(p) == ~Dangling /\ Exact /\ CloneLoad(p)

ThreadCloneStore(i) == ~Dangling /\ CloneStore(i)

\* dec_refs on refs = 0 does not return in a debug build: such a drop is
\* not followed.
ThreadDrop(p) == ~Dangling /\ handles[p].refs > 0 /\ Drop(p)

NextRace ==
    \/ \E k \in Keys, c \in Charges : ThreadInsert(k, c)
    \/ \E k \in Keys : ThreadGet(k)
    \/ \E k \in Keys : ThreadRemove(k)
    \/ \E p \in Handles : ThreadCloneLoad(p)
    \/ \E i \in 1..MaxCloning : ThreadCloneStore(i)
    \/ \E p \in Handles : ThreadDrop(p)

SpecRace == Init /\ [][NextRace]_vars

\* ------------------------------------------------- threads at the shard mutex
\* What the threads of the cache do with the shard mutex: each operation is
\* cut where it takes the mutex, where it gives it back, and where it calls
\* code of the user. pc names the part a thread is in.

\* a step of thread t from one part to another; the mutex is given by to
Goto(t, from, to, holder) ==
    /\ pc[t] = from
    /\ pc' = [pc EXCEPT ![t] = to]
    /\ lock' = holder
    /\ UNCHANGED notLock

\* insert_with_context: shards[..].lock(), then waiters.remove, shard.insert,
\* inc_refs_by under the mutex
InsertLock(t) == lock = 0 /\ Goto(t, "idle", "insert_locked", t)

\* the guard goes out of scope; the senders are served
InsertUnlock(t) == Goto(t, "insert_locked", "insert_send", 0)

\* listener.on_release for every entry of to_deallocate
InsertOnRelease(t) == Goto(t, "insert_send", "insert_on_release", lock)

InsertReturn(t) == Goto(t, "insert_on_release", "idle", lock)

\* get: shard.get under the mutex (inc_refs, eviction access)
GetLock(t) == lock = 0 /\ Goto(t, "idle", "get_locked", t)

GetReturn(t) == Goto(t, "get_locked", "idle", 0)

\* remove: shard.remove under the mutex
RemoveLock(t) == lock = 0 /\ Goto(t, "idle", "remove_locked", t)

RemoveReturn(t) == Goto(t, "remove_locked", "idle", 0)

\* Entry::drop, try_release_external_handle: dec_refs and try_release_handle
\* under the mutex
DropLock(t) == lock = 0 /\ Goto(t, "idle", "drop_locked", t)

\* the guard goes out of scope; listener.on_release for what was released
DropOnRelease(t) == Goto(t, "drop_locked", "drop_on_release", 0)

DropReturn(t) == Goto(t, "drop_on_release", "idle", lock)

\* Entry::clone: base.inc_refs(), no mutex is taken
CloneIncRefs(t) == Goto(t, "idle", "clone_inc_refs", lock)

CloneReturn(t) == Goto(t, "clone_inc_refs", "idle", lock)

\* entry: shards[..].lock(), shard.get, shard.waiters.entry
EntryLock(t) == lock = 0 /\ Goto(t, "idle", "entry_locked", t)

\* Hit, or Occupied: the sender is pushed, the guard goes out of scope
EntryReturn(t) == Goto(t, "entry_locked", "idle", 0)

\* Vacant: v.insert(vec![]), then `let future = f();` with the guard alive
EntryCallLoader(t) == Goto(t, "entry_locked", "entry_loader", lock)

\* f has returned the future: tokio::spawn, the guard goes out of scope;
\* the thread goes on as the spawned task, which awaits the future
EntrySpawn(t) == Goto(t, "entry_loader", "loader_await", 0)

\* the future returned Ok: the task calls insert_with_context
LoaderInsertLock(t) == lock = 0 /\ Goto(t, "loader_await", "insert_locked", t)

\* the future returned Err: the task locks the shard, removes waiters[key]
LoaderErrLock(t) == lock = 0 /\ Goto(t, "loader_await", "loader_err_locked", t)

LoaderErrReturn(t) == Goto(t, "loader_err_locked", "idle", 0)

NextLock ==
    \E t \in Threads :
        \/ InsertLock(t)
        \/ InsertUnlock(t)
        \/ InsertOnRelease(t)
        \/ InsertReturn(t)
        \/ GetLock(t)
        \/ GetReturn(t)
        \/ RemoveLock(t)
        \/ RemoveReturn(t)
        \/ DropLock(t)
        \/ DropOnRelease(t)
        \/ DropReturn(t)
        \/ CloneIncRefs(t)
        \/ CloneReturn(t)
        \/ EntryLock(t)
        \/ EntryReturn(t)
        \/ EntryCallLoader(t)
        \/ EntrySpawn(t)
        \/ LoaderInsertLock(t)
        \/ LoaderErrLock(t)
        \/ LoaderErrReturn(t)

SpecLock == Init /\ [][NextLock]_vars

\* the parts in which a thread runs code supplied by the user
InCallback == {"insert_on_release", "drop_on_release", "entry_loader"}

\* the parts in which a thread writes to the state of a handle
WritesHandle == {"insert_locked", "get_locked", "remove_locked", "drop_locked",
                 "clone_inc_refs"}

\* ------------------------------------------------------------- store region
\* One Region of the disk store: RegionInner behind its RwLock, the slices
\* handed out and the exclusive guard. A guard is the write guard of the
\* RwLock: while one is held no other operation gets the lock.

Unlocked == guard = <<>>

\* the writers and readers registered on the region
InFlight ==
    region.writers + region.buffered_readers + region.physical_readers

\* the ExclusiveFuture f has been polled and is not granted yet: its waker is
\* in RegionInner::wakers
Registered(f) == futures[f].state # "none"

\* a wake_all that wakes nobody
WakeNone(fs) == fs

\* RegionInner::wake_all: every registered waker is woken, the runtime will
\* poll the futures that wait
WakeAll(fs) ==
    [f \in Futures |->
        IF fs[f].state = "pending" THEN [fs[f] EXCEPT !.state = "woken"]
        ELSE fs[f]]

\* Region::allocate: None if the region is full, else a WriteSlice
Allocate(size) ==
    /\ Unlocked
    /\ region.len + size <= RegionSize
    /\ region.buffer
    /\ InFlight < MaxSlices
    /\ region' = [region EXCEPT !.writers = @ + 1, !.len = @ + size]
    /\ slices' = [slices EXCEPT !.write = @ + 1]
    /\ UNCHANGED <<guard, futures, reading, notRegion>>

\* Region::load with a buffer attached: a buffered read, ReadSlice::Slice
LoadBuffered(version) ==
    /\ Unlocked
    /\ version = 0 \/ version = region.version
    /\ region.buffer
    /\ InFlight < MaxSlices
    /\ region' = [region EXCEPT !.buffered_readers = @ + 1]
    /\ slices' = [slices EXCEPT !.buffered = @ + 1]
    /\ UNCHANGED <<guard, futures, reading, notRegion>>

\* A load that registers its reader whatever version it carries: C37 sees it.
LoadPhysicalAnyVersion(version) ==
    /\ Unlocked
    /\ ~region.buffer
    /\ InFlight < MaxSlices
    /\ region' = [region EXCEPT !.physical_readers = @ + 1]
    /\ reading' = reading + 1
    /\ UNCHANGED <<guard, futures, slices, notRegion>>

\* Region::load without buffer: the reader is registered, the lock released,
\* the device is read
LoadPhysical(version) ==
    /\ Unlocked
    /\ version = 0 \/ version = region.version
    /\ ~region.buffer
    /\ InFlight < MaxSlices
    /\ region' = [region EXCEPT !.physical_readers = @ + 1]
    /\ reading' = reading + 1
    /\ UNCHANGED <<guard, futures, slices, notRegion>>

\* the device read is done: ReadSlice::Owned
LoadRead ==
    /\ reading > 0
    /\ reading' = reading - 1
    /\ slices' = [slices EXCEPT !.owned = @ + 1]
    /\ UNCHANGED <<region, guard, futures, notRegion>>

\* the device read fails: load returns the error, the reader stays counted
LoadReadErr ==
    /\ reading > 0
    /\ reading' = reading - 1
    /\ UNCHANGED <<region, guard, futures, slices, notRegion>>

\* WriteSlice::drop: the callback takes the lock, writers -= 1
DropWriteSlice ==
    /\ Unlocked
    /\ slices.write > 0
    /\ region' = [region EXCEPT !.writers = @ - 1]
    /\ slices' = [slices EXCEPT !.write = @ - 1]
    /\ futures' = WakeAll(futures)
    /\ UNCHANGED <<guard, reading, notRegion>>

\* ReadSlice::drop of a ReadSlice::Slice
DropBufferedSlice ==
    /\ Unlocked
    /\ slices.buffered > 0
    /\ region' = [region EXCEPT !.buffered_readers = @ - 1]
    /\ slices' = [slices EXCEPT !.buffered = @ - 1]
    /\ futures' = WakeAll(futures)
    /\ UNCHANGED <<guard, reading, notRegion>>

\* ReadSlice::drop of a ReadSlice::Owned
DropOwnedSlice ==
    /\ Unlocked
    /\ slices.owned > 0
    /\ region' = [region EXCEPT !.physical_readers = @ - 1]
    /\ slices' = [slices EXCEPT !.owned = @ - 1]
    /\ futures' = WakeAll(futures)
    /\ UNCHANGED <<guard, reading, notRegion>>

\* Region::attach_buffer, with its two assertions and the one of
\* RegionInner::attach_buffer
AttachBuffer ==
    /\ Unlocked
    /\ region.writers = 0
    /\ region.buffered_readers = 0
    /\ ~region.buffer
    /\ region' = [region EXCEPT !.buffer = TRUE, !.len = 0]
    /\ UNCHANGED <<guard, futures, slices, reading, notRegion>>

\* Region::detach_buffer
DetachBuffer ==
    /\ Unlocked
    /\ region.buffer
    /\ region' = [region EXCEPT !.buffer = FALSE]
    /\ UNCHANGED <<guard, futures, slices, reading, notRegion>>

\* Region::advance
Advance ==
    /\ Unlocked
    /\ region.version < MaxVersion
    /\ region' = [region EXCEPT !.version = @ + 1]
    /\ UNCHANGED <<guard, futures, slices, reading, notRegion>>

\* An is_ready that does not look at the physical readers: C17 sees it.
IsReadyNoPhysical(can_write, can_buffered_read, can_physical_read) ==
    /\ can_write \/ region.writers = 0
    /\ can_buffered_read \/ region.buffered_readers = 0

\* ExclusiveFuture::is_ready
IsReady(can_write, can_buffered_read, can_physical_read) ==
    /\ can_write \/ region.writers = 0
    /\ can_buffered_read \/ region.buffered_readers = 0
    /\ can_physical_read \/ region.physical_readers = 0

\* Region::exclusive, the poll of ExclusiveFuture that returns Ready: the
\* guard is the write guard taken by the poll
Exclusive(can_write, can_buffered_read, can_physical_read) ==
    /\ Unlocked
    /\ IsReady(can_write, can_buffered_read, can_physical_read)
    /\ guard' = [can_write |-> can_write,
                 can_buffered_read |-> can_buffered_read,
                 can_physical_read |-> can_physical_read]
    /\ UNCHANGED <<region, futures, slices, reading, notRegion>>

\* Region::exclusive, the first poll of ExclusiveFuture f that returns Pending:
\* is_waker_set, the waker is pushed under the lock
ExclusivePending(f, can_write, can_buffered_read, can_physical_read) ==
    /\ Unlocked
    /\ ~Registered(f)
    /\ ~IsReady(can_write, can_buffered_read, can_physical_read)
    /\ futures' = [futures EXCEPT ![f] =
                      [state |-> "pending", can_write |-> can_write,
                       can_buffered_read |-> can_buffered_read,
                       can_physical_read |-> can_physical_read]]
    /\ UNCHANGED <<region, guard, slices, reading, notRegion>>

\* is_ready of the ExclusiveFuture f on the counters as they are
FutureReady(f) ==
    IsReady(futures[f].can_write, futures[f].can_buffered_read,
            futures[f].can_physical_read)

\* the runtime polls the woken ExclusiveFuture f: Ready with the write guard,
\* or Pending again (the waker stays registered)
ExclusivePoll(f) ==
    /\ Unlocked
    /\ futures[f].state = "woken"
    /\ IF FutureReady(f)
       THEN /\ guard' = [can_write |-> futures[f].can_write,
                         can_buffered_read |-> futures[f].can_buffered_read,
                         can_physical_read |-> futures[f].can_physical_read]
            /\ futures' = [futures EXCEPT ![f] = NoFuture]
       ELSE /\ guard' = guard
            /\ futures' = [futures EXCEPT ![f].state = "pending"]
    /\ UNCHANGED <<region, slices, reading, notRegion>>

\* RegionInner::detach_buffer through the guard
GuardDetachBuffer ==
    /\ ~Unlocked
    /\ region.buffer
    /\ region' = [region EXCEPT !.buffer = FALSE]
    /\ UNCHANGED <<guard, futures, slices, reading, notRegion>>

\* the ExclusiveGuard is dropped
GuardDrop ==
    /\ ~Unlocked
    /\ guard' = <<>>
    /\ UNCHANGED <<region, futures, slices, reading, notRegion>>

NextRegion ==
    \/ \E size \in 1..RegionSize : Allocate(size)
    \/ \E version \in 0..MaxVersion : LoadBuffered(version)
    \/ \E version \in 0..MaxVersion : LoadPhysical(version)
    \/ LoadRead
    \/ LoadReadErr
    \/ DropWriteSlice
    \/ DropBufferedSlice
    \/ DropOwnedSlice
    \/ AttachBuffer
    \/ DetachBuffer
    \/ Advance
    \/ \E w, b, r \in BOOLEAN : Exclusive(w, b, r)
    \/ \E f \in Futures : \E w, b, r \in BOOLEAN : ExclusivePending(f, w, b, r)
    \/ \E f \in Futures : ExclusivePoll(f)
    \/ GuardDetachBuffer
    \/ GuardDrop

SpecRegion == Init /\ [][NextRegion]_vars

\* the tasks are scheduled and the lock is fair: a woken future is polled, a
\* guard is dropped
SpecExclusive ==
    /\ Init
    /\ [][NextRegion]_vars
    /\ \A f \in Futures : SF_vars(ExclusivePoll(f))
    /\ WF_vars(GuardDrop)

\* ------------------------------------------------ operations of the store
\* the store is given an entry of key k whose value has n bytes: the
\* admission picker says no
EnqueueRejected(k, n) ==
    /\ mode = "open"
    /\ sequence <= MaxSequence
    /\ sequence' = sequence + 1
    /\ UNCHANGED <<mode, batch, flushing, disk, dindexer, clean, scanner,
                   scanned, written, recorder, opens, notStore>>

\* the picker admits the entry, the entry goes to the batch with the next
\* sequence; a new group takes a clean region
Enqueue(k, n) ==
    /\ mode = "open"
    /\ sequence <= MaxSequence
    /\ batch.groups # <<>>
    /\ LET aligned == AlignUp(Align, HeaderLen + 1 + n)
       IN /\ batch.len + aligned <= BatchCapacity
          /\ IF GroupFull(batch, aligned)
             THEN \E r \in clean :
                     /\ batch' = BatchEntry(batch, k, n, sequence, r)
                     /\ clean' = clean \ {r}
             ELSE /\ batch' = BatchEntry(batch, k, n, sequence, 0)
                  /\ clean' = clean
    /\ sequence' = sequence + 1
    /\ recorder' = Extend(recorder, k, n)
    /\ UNCHANGED <<mode, flushing, disk, dindexer, scanner, scanned, written,
                   opens, notStore>>

\* the reclaimer has read the i-th entry written to the region id and gives
\* it back to the batch as a reinsertion, with the sequence the entry has
Reinsert(id, i) ==
    /\ mode = "open"
    /\ batch.groups # <<>>
    /\ i <= Len(written[id])
    /\ written[id][i].hash \in DOMAIN dindexer
    /\ LET hash == written[id][i].hash
           addr == written[id][i].addr
           bytes == DeviceRead(disk[addr.region], addr.offset, addr.len)
           aligned == AlignUp(Align, Len(bytes))
       IN /\ batch.len + aligned <= BatchCapacity
          /\ IF GroupFull(batch, aligned)
             THEN \E r \in clean :
                     /\ batch' = BatchReinsertion(batch, hash, addr.sequence,
                                                  bytes, r)
                     /\ clean' = clean \ {r}
             ELSE /\ batch' = BatchReinsertion(batch, hash, addr.sequence,
                                               bytes, 0)
                  /\ clean' = clean
    /\ UNCHANGED <<mode, sequence, flushing, disk, dindexer, scanner, scanned,
                   written, recorder, opens, notStore>>

\* BatchMut::rotate on a batch that is not empty
Rotate ==
    /\ mode = "open"
    /\ batch.groups # <<>>
    /\ ~BatchIsEmpty(batch)
    /\ flushing' = flushing \o RotatedGroups(batch)
    /\ batch' = RotatedBatch(batch)
    /\ UNCHANGED <<mode, sequence, disk, dindexer, clean, scanner, scanned,
                   written, recorder, opens, notStore>>

\* the flusher writes a group of a rotated batch to its region and
\* publishes the indices of the group
FlushGroup(i) ==
    /\ i \in 1..Len(flushing)
    /\ LET g == flushing[i]
       IN /\ disk' = [disk EXCEPT ![g.region] = DeviceWrite(@, g.offset, g.bytes)]
          /\ dindexer' = Publish(dindexer, g.region, g.indices)
          /\ written' = [written EXCEPT ![g.region] =
                            @ \o [j \in 1..Len(g.indices) |->
                                     LET e == g.indices[j]
                                     IN [hash |-> e.hash,
                                         sequence |-> e.address.sequence,
                                         addr |-> [e.address EXCEPT
                                                     !.region = g.region]]]]
    /\ flushing' = [j \in 1..(Len(flushing) - 1) |->
                       IF j < i THEN flushing[j] ELSE flushing[j + 1]]
    /\ UNCHANGED <<mode, sequence, batch, clean, scanner, scanned, recorder,
                   opens, notStore>>

\* Store::close, then the store is dropped: what was given to the store is
\* on the device, what the store had in memory is gone
Close ==
    /\ mode = "open"
    /\ opens < MaxOpens
    /\ batch.groups = <<>> \/ BatchIsEmpty(batch)
    /\ flushing = <<>>
    /\ mode' = "closed"
    /\ batch' = NoBatch
    /\ dindexer' = <<>>
    /\ clean' = {}
    /\ UNCHANGED <<sequence, flushing, disk, scanner, scanned, written,
                   recorder, opens, notStore>>

\* the store is built again on the same device: the recovery starts
Open ==
    /\ mode = "closed"
    /\ mode' = "recovering"
    /\ scanner' = [region |-> 1, offset |-> 0]
    /\ scanned' = [r \in Regions |-> <<>>]
    /\ opens' = opens + 1
    /\ UNCHANGED <<sequence, batch, flushing, disk, dindexer, clean, written,
                   recorder, notStore>>

\* the recovery calls RegionScanner::next: the entry found goes to the
\* indexer
RecoverNext ==
    /\ mode = "recovering"
    /\ LET header == ScannerCurrent(scanner.region, scanner.offset)
           info == ScannerInfo(scanner.region, scanner.offset, header)
       IN /\ header # NoHeader
          /\ scanned' = [scanned EXCEPT ![scanner.region] = Append(@, info)]
          /\ dindexer' = DiskIndexerInsert(dindexer, info.hash, info.addr)
          /\ scanner' = [scanner EXCEPT !.offset = ScannerStep(@, header)]
    /\ UNCHANGED <<mode, sequence, batch, flushing, disk, clean, written,
                   recorder, opens, notStore>>

\* RegionScanner::next returns None: the recovery goes to the next region
RecoverRegionDone ==
    /\ mode = "recovering"
    /\ ScannerCurrent(scanner.region, scanner.offset) = NoHeader
    /\ scanner.region < NumRegions
    /\ scanner' = [region |-> scanner.region + 1, offset |-> 0]
    /\ UNCHANGED <<mode, sequence, batch, flushing, disk, dindexer, clean,
                   scanned, written, recorder, opens, notStore>>

\* the last region is scanned: the regions without entry are clean, the
\* writer takes one of them, the store is open
RecoverDone ==
    /\ mode = "recovering"
    /\ ScannerCurrent(scanner.region, scanner.offset) = NoHeader
    /\ scanner.region = NumRegions
    /\ mode' = "open"
    /\ LET empty == {r \in Regions : scanned[r] = <<>>}
       IN IF empty = {}
          THEN /\ batch' = NoBatch
               /\ clean' = {}
          ELSE \E r \in empty :
                  /\ batch' = AppendGroup(NoBatch, r)
                  /\ clean' = empty \ {r}
    /\ UNCHANGED <<sequence, flushing, disk, dindexer, scanner, scanned,
                   written, recorder, opens, notStore>>

NextStore ==
    \/ \E k \in StoreKeys, n \in ValueLens : Enqueue(k, n)
    \/ \E k \in StoreKeys, n \in ValueLens : EnqueueRejected(k, n)
    \/ \E r \in Regions, i \in 1..RegionSlots : Reinsert(r, i)
    \/ Rotate
    \/ \E i \in 1..(2 * NumRegions) : FlushGroup(i)
    \/ Close
    \/ Open
    \/ RecoverNext
    \/ RecoverRegionDone
    \/ RecoverDone

SpecStore == Init /\ [][NextStore]_vars

\* ------------------------------------------------- the calls on a BatchMut
\* the index that the last call has pushed
LastIndex(b) ==
    LET g == b.groups[Len(b.groups)] IN g.indices[Len(g.indices)]

\* BatchMut::entry returns true: the entry is not outdated, its bytes fit in
\* the buffer, and a clean region is there if the group is full
BatchMutEntry(k, n) ==
    /\ sequence <= MaxSequence
    /\ LET aligned == AlignUp(Align, HeaderLen + 1 + n)
       IN /\ batch.len + aligned <= BatchCapacity
          /\ IF GroupFull(batch, aligned)
             THEN \E r \in clean :
                     /\ batch' = BatchEntry(batch, k, n, sequence, r)
                     /\ clean' = clean \ {r}
             ELSE /\ batch' = BatchEntry(batch, k, n, sequence, 0)
                  /\ clean' = clean
    /\ sequence' = sequence + 1
    /\ accepted' = [accepted EXCEPT !.indices = Append(@, LastIndex(batch'))]
    /\ UNCHANGED <<handed, rotated, notBatch>>

\* BatchMut::reinsertion returns true: the indexer holds the hash and the
\* bytes fit; the bytes are those of the i-th entry that was accepted, with
\* the sequence it has
BatchMutReinsertion(i) ==
    /\ i <= Len(accepted.indices)
    /\ LET e == accepted.indices[i]
           k == CHOOSE key \in StoreKeys : HashOf(key) = e.hash
           header == [hash |-> e.hash, sequence |-> e.address.sequence,
                      key_len |-> 1,
                      value_len |-> e.address.len - HeaderLen - 1]
           bytes == HeaderBytes(header) \o Serialize(k, header.value_len)
           aligned == AlignUp(Align, Len(bytes))
       IN /\ batch.len + aligned <= BatchCapacity
          /\ IF GroupFull(batch, aligned)
             THEN \E r \in clean :
                     /\ batch' = BatchReinsertion(batch, e.hash,
                                                  e.address.sequence, bytes, r)
                     /\ clean' = clean \ {r}
             ELSE /\ batch' = BatchReinsertion(batch, e.hash,
                                               e.address.sequence, bytes, 0)
                  /\ clean' = clean
    /\ accepted' = [accepted EXCEPT !.indices = Append(@, LastIndex(batch'))]
    /\ UNCHANGED <<sequence, handed, rotated, notBatch>>

\* BatchMut::tombstone
BatchMutTombstone ==
    /\ Len(accepted.tombstones) < MaxTombstones
    /\ LET tombstone == Len(accepted.tombstones) + 1
       IN /\ batch' = BatchTombstone(batch, tombstone)
          /\ accepted' = [accepted EXCEPT !.tombstones = Append(@, tombstone)]
    /\ UNCHANGED <<sequence, clean, handed, rotated, notBatch>>

\* BatchMut::wait
BatchMutWait ==
    /\ Len(accepted.waiters) < MaxFlushWaiters
    /\ LET tx == Len(accepted.waiters) + 1
       IN /\ batch' = BatchWait(batch, tx)
          /\ accepted' = [accepted EXCEPT !.waiters = Append(@, tx)]
    /\ UNCHANGED <<sequence, clean, handed, rotated, notBatch>>

\* BatchMut::rotate: None for an empty BatchMut, else the Batch
BatchMutRotate ==
    /\ IF BatchIsEmpty(batch)
       THEN /\ rotated' = [t |-> "none"]
            /\ UNCHANGED <<batch, handed>>
       ELSE /\ rotated' = [t |-> "some", groups |-> RotatedGroups(batch),
                           tombstones |-> batch.tombstones,
                           waiters |-> batch.waiters]
            /\ handed' = Append(handed, rotated')
            /\ batch' = RotatedBatch(batch)
    /\ UNCHANGED <<sequence, clean, accepted, notBatch>>

NextBatch ==
    \/ \E k \in StoreKeys, n \in ValueLens : BatchMutEntry(k, n)
    \/ BatchMutReinsertion(1)
    \/ BatchMutTombstone
    \/ BatchMutWait
    \/ BatchMutRotate

SpecBatch == Init /\ [][NextBatch]_vars

\* --------------------------------------- the builders of the device options
\* build() of DirectFsDeviceOptionsBuilder (kind "fs") and of
\* DirectFileDeviceOptionsBuilder (kind "file")
Build(kind, capacity_arg, size_arg) ==
    /\ built' = [t |-> "called", kind |-> kind, capacity |-> capacity_arg,
                 size |-> size_arg,
                 result |-> BuildOptions(capacity_arg, size_arg)]
    /\ UNCHANGED notDevice

NextDevice ==
    \E kind \in {"fs", "file"}, capacity_arg \in CapacityArgs,
       size_arg \in FileSizeArgs :
        Build(kind, capacity_arg, size_arg)

SpecDevice == Init /\ [][NextDevice]_vars

\* ------------------------------------------ the entries the batches pin
\* A client hands the CacheEntry it got from the memory cache to the store;
\* the flusher gives it to BatchMut::entry, rotate moves it into a Group of
\* the Batch, and the Group is dropped when its indices are published.
\* the Entry objects on h that the batches hold
Held(h) == IF pinned[h] = "none" THEN 0 ELSE 1

\* CacheEntry::is_outdated
IsOutdated(h) == ~handles[h].in_indexer

\* the drop of an Entry on p that the flusher holds
FlusherDrop(p) ==
    /\ ~Dangling
    /\ handles[p].refs > 0
    /\ LET S == TryReleaseExternalHandle(Shard, p)
       IN Commit(S, SeqToSet(S.out))
    /\ entries' = [entries EXCEPT ![p] = @ - 1]
    /\ UNCHANGED <<policy, waiters, sending, loaders, joins, cloning, notPin>>

\* a client clones an Entry of its own
PinCloneLoad(p) ==
    /\ entries[p] > Held(p)
    /\ ThreadCloneLoad(p)

\* a client drops an Entry of its own
PinClientDrop(p) ==
    /\ Droppable(p) > Held(p)
    /\ ThreadDrop(p)

\* BatchMut::entry with an Entry on p that a client handed over: an outdated
\* entry is refused and dropped, any other is pushed to the last group
PinEntry(p) ==
    /\ Droppable(p) > Held(p)
    /\ pinned[p] = "none"
    /\ Cardinality({h \in Handles : pinned[h] # "none"}) < MaxPinned
    /\ IF IsOutdated(p)
       THEN /\ FlusherDrop(p)
            /\ UNCHANGED pinned
       ELSE /\ ~Dangling
            /\ pinned' = [pinned EXCEPT ![p] = "batch"]
            /\ UNCHANGED <<cacheVars, notPin>>

\* BatchMut::rotate: the entries of the groups move into the Batch
PinRotate ==
    /\ \E p \in Handles : pinned[p] = "batch"
    /\ pinned' = [h \in Handles |->
                    IF pinned[h] = "batch" THEN "rotated" ELSE pinned[h]]
    /\ UNCHANGED <<cacheVars, notPin>>

\* the flusher has written the group of the entry on p and publishes its
\* index in the store's indexer
PinPublish(p) ==
    /\ pinned[p] = "rotated"
    /\ pinned' = [pinned EXCEPT ![p] = "published"]
    /\ UNCHANGED <<cacheVars, notPin>>

\* the Group is dropped, and the Entry on p with it
PinRelease(p) ==
    /\ pinned[p] = "published"
    /\ FlusherDrop(p)
    /\ pinned' = [pinned EXCEPT ![p] = "none"]

NextPin ==
    \/ \E k \in Keys, c \in Charges : ThreadInsert(k, c)
    \/ \E k \in FetchKeys : ThreadGet(k)
    \/ \E k \in FetchKeys : ThreadRemove(k)
    \/ \E p \in Handles : PinCloneLoad(p)
    \/ \E i \in 1..MaxCloning : ThreadCloneStore(i)
    \/ \E p \in Handles : PinClientDrop(p)
    \/ \E p \in Handles : PinEntry(p)
    \/ PinRotate
    \/ \E p \in Handles : PinPublish(p)
    \/ \E p \in Handles : PinRelease(p)

\* the cache of the hybrid store, built with one Eviction type
InitPin == Init /\ policy = "fifo"

SpecPin == InitPin /\ [][NextPin]_vars

\* ------------------------------------------------------------ the Container
\* Container::insert
ContainerInsert(index, data) ==
    /\ LET id == PoolOf(index)
           pool == pools[id]
           weight == Weighter(data)
           room == MakeRoom(pool, weight, pool.policy)
       IN IF index \in DOMAIN pool.handles
          THEN /\ ret' = [op |-> "insert", index |-> index, result |-> FALSE,
                          evicted |-> {}]
               /\ UNCHANGED <<pools, store>>
          ELSE /\ pools' = [pools EXCEPT ![id] = PoolInsert(room, index, weight)]
               /\ store' = [store EXCEPT ![index] = data]
               /\ ret' = [op |-> "insert", index |-> index, result |-> TRUE,
                          evicted |-> (DOMAIN pool.handles) \ (DOMAIN room.handles)]
    /\ UNCHANGED notContainer

\* Container::remove
ContainerRemove(index) ==
    /\ LET id == PoolOf(index)
           pool == pools[id]
       IN IF index \notin DOMAIN pool.handles
          THEN /\ ret' = [op |-> "remove", index |-> index, result |-> FALSE]
               /\ UNCHANGED <<pools, store>>
          ELSE /\ pools' = [pools EXCEPT ![id] = PoolRemove(pool, index)]
               /\ store' = [store EXCEPT ![index] = NoData]
               /\ ret' = [op |-> "remove", index |-> index, result |-> TRUE]
    /\ UNCHANGED notContainer

\* Container::get
ContainerGet(index) ==
    /\ LET id == PoolOf(index)
           pool == pools[id]
       IN IF index \in DOMAIN pool.handles
          THEN /\ pools' = [pools EXCEPT ![id].policy = PolicyAccess(@, index)]
               /\ ret' = [op |-> "get", index |-> index, result |-> store[index]]
               /\ UNCHANGED store
          ELSE /\ ret' = [op |-> "get", index |-> index, result |-> NoData]
               /\ UNCHANGED <<pools, store>>
    /\ UNCHANGED notContainer

NextContainer ==
    \/ \E index \in Indices, data \in Weights : ContainerInsert(index, data)
    \/ \E index \in Indices : ContainerRemove(index)
    \/ \E index \in Indices : ContainerGet(index)

SpecContainer == Init /\ [][NextContainer]_vars

\* Store::load of the key k: the address of its hash, the bytes of the
\* entry read from the device, header and key checked
NoEntry == [key |-> 0, value |-> 0]

Load(k) ==
    IF HashOf(k) \notin DOMAIN dindexer THEN NoEntry
    ELSE LET addr == dindexer[HashOf(k)]
             bytes == DeviceRead(disk[addr.region], addr.offset, addr.len)
             header == HeaderRead(SubSeq(bytes, 1, HeaderLen))
         IN IF header = NoHeader \/ EntryLen(header) # Len(bytes) THEN NoEntry
            ELSE LET e == Deserialize(SubSeq(bytes, HeaderLen + 1, Len(bytes)),
                                      header)
                 IN IF e.key = k THEN e ELSE NoEntry

\* --------------------------------------------------------------- properties
\* sum of the charges of the handles of D, as the handles are in hs
SumCharge(hs, D) == Sum([h \in Handles |-> hs[h].charge], D)

InIndexer == {h \in Handles : handles[h].in_indexer}

InEviction == {h \in Handles : handles[h].in_eviction}

Inited == {h \in Handles : handles[h].inited}

NoExternalRefs == \A h \in Handles : handles[h].refs = 0

\* the handles whose data a step takes out
Released == {h \in Handles : handles[h].inited /\ ~handles'[h].inited}

\* a step in which the last Entry of p is dropped
LastDrop(p) ==
    /\ entries[p] = 1
    /\ entries'[p] = 0
    /\ handles[p].refs = 1

\* C1: whenever no handle has an external reference the usage is at most the
\* capacity, for FIFO and for LRU; usage above the capacity needs a handle
\* with refs > 0.
C1_CapacityBound == NoExternalRefs => usage <= Capacity

\* C1 happens: a shard filled to its capacity by two handles nobody refers to
C1_Witness ==
    /\ NoExternalRefs
    /\ usage = Capacity
    /\ Cardinality(InIndexer) = 2

\* C2 as the specification states it: usage is the sum of the charges of the
\* handles in the indexer.
C2_Original == usage = SumCharge(handles, InIndexer)

\* C2, amended: usage is the sum of the charges of the handles that are not
\* released, in the indexer or out of it while entries are held on them; it
\* is the sum over the indexer when no handle has an external reference.
C2_UsageAccounting ==
    /\ usage = SumCharge(handles, Inited)
    /\ NoExternalRefs => usage = SumCharge(handles, InIndexer)

\* C2 happens: a handle out of the indexer is held and still charged
C2_Witness ==
    \E h \in Handles :
        /\ handles[h].inited
        /\ ~handles[h].in_indexer
        /\ handles[h].refs > 0
        /\ usage = SumCharge(handles, InIndexer) + handles[h].charge

\* C3: while an Entry on a handle is alive the data of the handle is there;
\* a handle is not released under an Entry.
C3_EntryValueSafe == \A p \in Handles : entries[p] > 0 => handles[p].inited

\* C4: while a fetch of k is pending (k has a waiters entry) no step spawns
\* another loader for k; when the loader of k inserts, the handle gets
\* refs = 1 + the queued waiters, every queued waiter that still listens is
\* sent an entry on that same handle, and usage grows by the loaded charge,
\* less the charges of what the insert released.
C4_SingleFlight ==
    [][\A k \in FetchKeys :
         /\ k \in DOMAIN waiters => loaders'[k] <= loaders[k]
         /\ (k \in DOMAIN waiters /\ loaders'[k] < loaders[k]
                /\ k \in DOMAIN indexer')
            => LET p == indexer'[k]
                   ws == waiters[k]
               IN /\ k \notin DOMAIN waiters'
                  /\ ~handles[p].inited
                  /\ handles'[p].refs = 1 + Len(ws)
                  /\ entries'[p] = 1
                  /\ ws # <<>> => /\ p \in DOMAIN sending'
                                  /\ sending'[p].ws = ws
                  /\ usage' = usage + handles'[p].charge
                                    - SumCharge(handles, Released)
         /\ \A p \in DOMAIN sending :
              (sending[p].ws[1]
                 /\ (p \notin DOMAIN sending'
                       \/ Len(sending'[p].ws) < Len(sending[p].ws)))
              => /\ entries'[p] = entries[p] + 1
                 /\ handles'[p].inited
                 /\ handles'[p].refs = handles[p].refs
      ]_vars

\* C4 happens: the loader has inserted with a waiter queued, the waiter's
\* entry is about to be sent
C4_Witness ==
    \E p \in DOMAIN sending :
        /\ handles[p].key \in FetchKeys
        /\ loaders[handles[p].key] = 0
        /\ sending[p].ws = <<TRUE>>
        /\ handles[p].refs = 2
        /\ entries[p] = 1

\* C5: the listener's on_release has been called for every entry whose data
\* was taken out of its handle, or is about to be by the insert that took it.
C5_OnReleaseCalled == \A p \in Handles : handles[p].owed => p \in Pending

\* C6: refs of a handle is the number of live Entry objects on it plus the
\* entries reserved for the waiters not served yet.
C6_RefsCountEntries ==
    \A h \in Handles :
        handles[h].refs = entries[h] + (IF h \in DOMAIN sending
                                        THEN Len(sending[h].ws) ELSE 0)

\* C7: an insert on a cached key puts the new handle in the indexer and takes
\* the old one out of the indexer and of the eviction container; the old
\* handle is released at once if nobody holds it, else it keeps its data and
\* its charge; a superseded handle never goes back to the indexer or to the
\* eviction container, and it is released, usage reduced by its charge, when
\* its last reference is dropped.
C7_Replace ==
    [][/\ \A k \in DOMAIN indexer :
            (k \in DOMAIN indexer' /\ indexer'[k] # indexer[k])
            => LET old == indexer[k]
                   new == indexer'[k]
               IN /\ ~handles[new].inited
                  /\ handles'[new].inited /\ handles'[new].key = k
                  /\ handles'[new].in_indexer /\ handles'[new].in_eviction
                  /\ ~handles'[old].in_indexer /\ ~handles'[old].in_eviction
                  /\ handles[old].refs = 0 => ~handles'[old].inited
                  /\ handles[old].refs > 0 =>
                       /\ handles'[old].inited
                       /\ handles'[old].key = k
                       /\ handles'[old].charge = handles[old].charge
                       /\ handles'[old].refs = handles[old].refs
       /\ \A h \in Handles :
            (handles[h].inited /\ ~handles[h].in_indexer
                /\ handles[h].key \in DOMAIN indexer)
            => /\ handles[h].refs > 0
               /\ ~handles'[h].in_indexer /\ ~handles'[h].in_eviction
               /\ handles'[h].inited <=> ~LastDrop(h)
               /\ LastDrop(h) => usage' = usage - handles[h].charge
      ]_vars

\* C7 happens: a replaced handle is held while another handle has its key
C7_Witness ==
    \E h \in Handles :
        /\ handles[h].inited /\ ~handles[h].in_indexer
        /\ entries[h] > 0
        /\ handles[h].key \in DOMAIN indexer
        /\ indexer[handles[h].key] # h

C9_LruReinsert ==
    [][\A p \in Handles :
         (policy = "lru" /\ LastDrop(p) /\ handles[p].in_indexer)
         => IF usage <= Capacity
            THEN /\ handles'[p] = [handles[p] EXCEPT !.refs = 0,
                                                     !.in_eviction = TRUE]
                 /\ eviction' = Append(Without(eviction, p), p)
                 /\ indexer' = indexer
                 /\ usage' = usage
            ELSE /\ ~handles'[p].inited
                 /\ handles[p].key \notin DOMAIN indexer'
                 /\ p \notin SeqToSet(eviction')
                 /\ usage' = usage - handles[p].charge
      ]_vars

\* C9 happens: with LRU a handle popped from the eviction container under its
\* last Entry is in the indexer while the usage is back within the capacity
C9_Witness ==
    /\ policy = "lru"
    /\ \E p \in Handles :
         /\ handles[p].in_indexer /\ ~handles[p].in_eviction
         /\ handles[p].refs = 1 /\ entries[p] = 1
         /\ usage <= Capacity

\* C10: with FIFO a handle that is out of the eviction container never goes
\* back into it; when the last Entry of such a handle is dropped the handle
\* leaves the indexer and is released whatever the usage is; and once no
\* handle is referenced the eviction container holds exactly the handles of
\* the indexer, whose charges add up to the usage.
C10_FifoNoReinsert ==
    [][policy = "fifo" =>
         /\ \A p \in Handles :
              (handles[p].inited /\ ~handles[p].in_eviction)
              => ~handles'[p].in_eviction
         /\ \A p \in Handles :
              (LastDrop(p) /\ handles[p].in_indexer /\ ~handles[p].in_eviction)
              => /\ ~handles'[p].inited
                 /\ handles[p].key \notin DOMAIN indexer'
                 /\ usage' = usage - handles[p].charge
         /\ (\A h \in Handles : handles'[h].refs = 0)
            => /\ SeqToSet(eviction') = {h \in Handles : handles'[h].in_indexer}
               /\ usage' = SumCharge(handles', SeqToSet(eviction'))
      ]_vars

\* C10 happens: with FIFO a handle popped while referenced waits for its last
\* drop over the capacity, the handle inserted last is in the container
C10_Witness ==
    /\ policy = "fifo"
    /\ usage > Capacity
    /\ \E p, q \in Handles :
         /\ handles[p].in_indexer /\ ~handles[p].in_eviction
         /\ handles[p].refs > 0
         /\ eviction = <<q>>

\* a step in which a loader task of k ends without inserting
LoaderFails(k) ==
    /\ loaders'[k] < loaders[k]
    /\ \A h \in Handles : handles'[h].inited => handles[h].inited

\* C11: when the loader of k fails nothing is inserted, usage and the handles
\* stay as they are, no entry is created (the Miss future gets the error),
\* the waiters entry of k is removed in that same locked step, and the next
\* entry(k) that finds k neither cached nor in waiters is a Miss: it starts a
\* new loader with an empty queue.
C11_LoaderError ==
    [][\A k \in FetchKeys :
         /\ LoaderFails(k)
            => /\ handles' = handles
               /\ indexer' = indexer
               /\ eviction' = eviction
               /\ usage' = usage
               /\ entries' = entries
               /\ sending' = sending
               /\ k \notin DOMAIN waiters'
         /\ (k \notin DOMAIN waiters /\ k \in DOMAIN waiters')
            => /\ k \notin DOMAIN indexer
               /\ loaders'[k] = loaders[k] + 1
               /\ waiters'[k] = <<>>
      ]_vars

\* C11 happens: a loader runs with a Wait future queued behind it while
\* another key is cached: the loader can fail here
C11_Witness ==
    /\ loaders[1] = 1
    /\ 1 \in DOMAIN waiters
    /\ waiters[1] = <<TRUE>>
    /\ usage > 0

\* C12: for every key at most one loader task started by entry() is running.
C12_OneLoaderPerKey == \A k \in FetchKeys : loaders[k] <= 1

\* C13: dropping a Miss future changes nothing but the future: the loader
\* task goes on and the waiters stay queued; a loader whose Miss future was
\* dropped can still insert, and when it does k is cached and every Wait
\* future queued for k that still listens is handed to the insert for
\* delivery on the new handle.
C13_MissDropped ==
    /\ [](\A k \in FetchKeys :
            (loaders[k] > joins[k] /\ FreeHandles # {})
            => ENABLED LoaderOk(k, 1))
    /\ [][\A k \in FetchKeys :
            /\ (joins'[k] < joins[k] /\ loaders'[k] # loaders[k])
               => \* the task has ended by itself and has taken the waiters entry
                  /\ loaders'[k] = loaders[k] - 1
                  /\ k \notin DOMAIN waiters'
            /\ (joins'[k] < joins[k] /\ loaders'[k] = loaders[k])
               => /\ waiters' = waiters
                  /\ handles' = handles
                  /\ indexer' = indexer
                  /\ sending' = sending
                  /\ entries' = entries
            /\ (loaders[k] > joins[k] /\ loaders'[k] < loaders[k]
                  /\ joins'[k] = joins[k] /\ ~LoaderFails(k))
               => /\ k \in DOMAIN indexer'
                  /\ k \notin DOMAIN waiters'
                  /\ entries'[indexer'[k]] = 1
                  /\ (k \in DOMAIN waiters /\ waiters[k] # <<>>)
                     => /\ indexer'[k] \in DOMAIN sending'
                        /\ sending'[indexer'[k]].ws = waiters[k]
         ]_vars

\* C13 happens: the Miss future of the only running loader was dropped, a
\* Wait future is queued behind that loader
C13_Witness ==
    /\ loaders[1] = 1
    /\ joins[1] = 0
    /\ 1 \in DOMAIN waiters
    /\ waiters[1] = <<TRUE>>

\* a step in which the insert on p serves the next sender it took
Served(p) ==
    /\ p \in DOMAIN sending
    /\ \/ p \notin DOMAIN sending'
       \/ Len(sending'[p].ws) < Len(sending[p].ws)

\* C14: a Wait future dropped before the insert serves it does not disturb
\* the insert: the drop changes no handle; the send to the dropped receiver
\* creates no entry and gives the reserved reference back, the senders after
\* it are still served, one per step, a listening one getting its entry; at
\* every moment refs of a handle is the entries held plus the senders not
\* served yet, so after the last send refs counts the entries held.
C14_WaitDropped ==
    [][\A p \in Handles :
         /\ Served(p)
            => LET ws == sending[p].ws
               IN /\ p \in DOMAIN sending' <=> Tail(ws) # <<>>
                  /\ p \in DOMAIN sending' => sending'[p].ws = Tail(ws)
                  /\ entries'[p] = entries[p] + (IF Head(ws) THEN 1 ELSE 0)
                  /\ handles'[p].refs =
                        handles[p].refs - (IF Head(ws) THEN 0 ELSE 1)
                  /\ handles'[p].refs = entries'[p] + Len(Tail(ws))
                  /\ handles'[p].inited
         /\ (p \in DOMAIN sending /\ p \in DOMAIN sending'
               /\ Len(sending'[p].ws) = Len(sending[p].ws)
               /\ sending'[p].ws # sending[p].ws)
            => /\ handles' = handles
               /\ entries' = entries
         /\ (p \notin DOMAIN sending' /\ handles'[p].inited)
            => handles'[p].refs = entries'[p]
      ]_vars

\* C14 happens: the insert is about to send to a dropped receiver, a
\* listening one comes after it
C14_Witness ==
    \E p \in DOMAIN sending :
        /\ sending[p].ws = <<FALSE, TRUE>>
        /\ handles[p].refs = 3
        /\ entries[p] = 1

\* C15: no thread runs a callback of the user (on_release of the listener,
\* the loader closure of entry) while it holds the shard mutex.
C15_NoCallbackUnderLock == \A t \in Threads : pc[t] \in InCallback => lock # t

\* C16: a thread that writes to the state of a handle holds the shard mutex,
\* so no two threads write to a handle at the same time.
C16_WritesUnderLock ==
    /\ \A t \in Threads : pc[t] \in WritesHandle => lock = t
    /\ \A t, u \in Threads :
         (pc[t] \in WritesHandle /\ pc[u] \in WritesHandle) => t = u

\* the guard a reclaim asks for: no writer, no reader of any kind
Reclaiming ==
    /\ guard # <<>>
    /\ ~guard.can_write
    /\ ~guard.can_buffered_read
    /\ ~guard.can_physical_read

\* C17: while an exclusive guard taken with can_write = can_buffered_read =
\* can_physical_read = false is held, the three counters of the region are 0
\* and nobody holds a slice of the region or is reading it: the guard was
\* granted with the counters at 0 and nothing registers while it is held.
C17_ExclusiveReclaim ==
    Reclaiming => /\ region.writers = 0
                  /\ region.buffered_readers = 0
                  /\ region.physical_readers = 0
                  /\ slices = [write |-> 0, buffered |-> 0, owned |-> 0]
                  /\ reading = 0

\* C17 happens: the reclaim guard is held on a region that was written and
\* whose buffer was detached
C17_Witness ==
    /\ Reclaiming
    /\ region.len > 0
    /\ ~region.buffer
    /\ region.version > 1

\* what has been published to the indexer of the store since it was built:
\* the entries flushed, reinsertions included, or the entries recovered
Published ==
    IF mode = "open" THEN UNION {SeqToSet(written[r]) : r \in Regions}
    ELSE IF mode = "recovering"
         THEN UNION {SeqToSet(scanned[r]) : r \in Regions}
         ELSE {}

RECURSIVE ByOffset(_)
ByOffset(S) ==
    IF S = {} THEN <<>>
    ELSE LET first == CHOOSE e \in S :
                         \A f \in S : e.addr.offset <= f.addr.offset
         IN <<first>> \o ByOffset(S \ {first})

\* the frames written to region r, by offset
Frames(r) == ByOffset(SeqToSet(written[r]))

AllFrames == UNION {SeqToSet(written[r]) : r \in Regions}

\* the scan of region r has come to its end
ScanEnded(r) ==
    \/ r < scanner.region
    \/ /\ r = scanner.region
       /\ ScannerCurrent(r, scanner.offset) = NoHeader

\* C19: during a recovery, what the scanner has returned for a region is a
\* prefix of the frames written to it back to back, in the order of their
\* offsets, each with its offset, hash, sequence and entry length, the first
\* at offset 0 and each next one align_up(entry length) after the one before;
\* when the scan of a region ends, every frame written to it has been
\* returned; when the last scan ends, the indexer holds, for every hash
\* written, the frame of the highest sequence, and nothing else.
C19_ScanAndRecover ==
    mode = "recovering" =>
        /\ \A r \in Regions :
              /\ r > scanner.region => scanned[r] = <<>>
              /\ Len(scanned[r]) <= Len(Frames(r))
              /\ scanned[r] = SubSeq(Frames(r), 1, Len(scanned[r]))
              /\ \A i \in 1..Len(scanned[r]) :
                    scanned[r][i].addr.offset =
                        IF i = 1 THEN 0
                        ELSE scanned[r][i - 1].addr.offset
                             + AlignUp(Align, scanned[r][i - 1].addr.len)
              /\ ScanEnded(r) => scanned[r] = Frames(r)
        /\ ScanEnded(NumRegions) =>
              /\ DOMAIN dindexer = {e.hash : e \in AllFrames}
              /\ \A e \in AllFrames :
                    /\ dindexer[e.hash].sequence >= e.sequence
                    /\ \E f \in AllFrames :
                          f.hash = e.hash /\ f.addr = dindexer[e.hash]

\* C19 happens: the last scan has ended, a region held two frames, a region
\* held a frame followed by bytes that are no header, two frames of the
\* device had the same hash
C19_Witness ==
    /\ mode = "recovering"
    /\ ScanEnded(NumRegions)
    /\ \E r \in Regions : Len(scanned[r]) = 2
    /\ \E r \in Regions :
          /\ scanned[r] # <<>>
          /\ LET last == scanned[r][Len(scanned[r])]
             IN last.addr.offset + AlignUp(Align, last.addr.len)
                   < StoreRegionSize
    /\ \E e, f \in AllFrames : e.hash = f.hash /\ e.sequence < f.sequence

\* the store is open and has written all it was given
Quiescent ==
    /\ mode = "open"
    /\ flushing = <<>>
    /\ batch.groups = <<>> \/ BatchIsEmpty(batch)

C26_PolicyInIndexer ==
    \A i \in 1..Len(eviction) :
        LET p == eviction[i]
        IN /\ handles[p].inited
           /\ handles[p].in_eviction
           /\ handles[p].in_indexer
           /\ handles[p].key \in DOMAIN indexer
           /\ indexer[handles[p].key] = p

\* C26 happens: a handle is in the indexer and not in the eviction container
\* (it was popped as a victim while it was referenced), another one is in both
C26_Witness ==
    /\ eviction # <<>>
    /\ \E k \in DOMAIN indexer : indexer[k] \notin SeqToSet(eviction)

\* C27: in every state of the shard, seen with the shard lock free, a handle
\* that is in the indexer and has no reference is in the eviction container.
C27_UnreferencedEvictable ==
    \A k \in DOMAIN indexer :
        handles[indexer[k]].refs = 0 => indexer[k] \in SeqToSet(eviction)

\* C27 happens: a handle without reference is in the indexer and in the
\* eviction container after its last Entry was dropped (the LRU container
\* took it back), while a referenced handle of the indexer is out of the
\* container
C27_Witness ==
    /\ policy = "lru"
    /\ \E k \in DOMAIN indexer :
          /\ handles[indexer[k]].refs = 0
          /\ indexer[k] \in SeqToSet(eviction)
    /\ \E k \in DOMAIN indexer :
          /\ handles[indexer[k]].refs > 0
          /\ indexer[k] \notin SeqToSet(eviction)

\* the shard after the first n handles of its eviction container were popped
\* and given to try_release_handle
RECURSIVE Popped(_, _)
Popped(S, n) ==
    IF n = 0 THEN S
    ELSE LET victim == Head(S.eviction)
         IN Popped(TryReleaseHandle(EvictionPop(S), victim, FALSE), n - 1)

\* the victims of the eviction that an insert of this charge would run now
Victims(charge) ==
    SubSeq(eviction, 1, Len(eviction) - Len(Evict(Shard, charge).eviction))

\* C25: in every state, for every charge, the eviction of an insert pops
\* the handles at the head of the eviction container one by one, each of them
\* only with usage + charge > capacity, and ends with usage + charge <=
\* capacity or with an empty container; a victim with references leaves the
\* container and nothing else: it keeps its data and its place in the
\* indexer and is not released, a victim without reference is released.
\* And a referenced handle of the indexer leaves the indexer only in a step
\* that replaces it, removes it, clears the cache or drops its last
\* reference.
C25_EvictWhileOver ==
    /\ [](\A charge \in Charges :
            LET S1 == Evict(Shard, charge)
                n == Len(Victims(charge))
            IN /\ S1 = Popped(Shard, n)
               /\ \A m \in 0..(n - 1) :
                     Popped(Shard, m).usage + charge > Capacity
               /\ S1.usage + charge <= Capacity \/ S1.eviction = <<>>
               /\ \A i \in 1..n :
                     LET p == eviction[i]
                     IN IF handles[p].refs > 0
                        THEN /\ S1.hs[p] = [handles[p] EXCEPT
                                               !.in_eviction = FALSE]
                             /\ S1.indexer[handles[p].key] = p
                             /\ p \notin SeqToSet(S1.out)
                        ELSE /\ ~S1.hs[p].inited
                             /\ handles[p].key \notin DOMAIN S1.indexer
                             /\ p \in SeqToSet(S1.out))
    /\ [][\A p \in Handles :
             (handles[p].in_indexer /\ handles[p].refs > 0
                 /\ ~handles'[p].in_indexer)
             => LET k == handles[p].key
                IN \/ k \in DOMAIN indexer' /\ indexer'[k] # p
                   \/ entries'[p] = entries[p] + 1
                   \/ indexer' = <<>>
                   \/ handles[p].refs = 1 /\ entries'[p] = entries[p] - 1
        ]_vars

\* C25 happens: the indexer holds a referenced handle that an eviction has
\* popped from the container, and the shard is one insert away from an
\* eviction that pops a referenced victim and ends on the empty container
\* with usage + charge > capacity
C25_Witness ==
    /\ \E k \in DOMAIN indexer :
          /\ handles[indexer[k]].refs > 0
          /\ ~handles[indexer[k]].in_eviction
    /\ \E charge \in Charges :
          /\ Len(Victims(charge)) >= 1
          /\ handles[eviction[1]].refs > 0
          /\ Evict(Shard, charge).usage + charge > Capacity

\* the place of the handle p in the sequence s that holds it
Place(s, p) == CHOOSE i \in 1..Len(s) : s[i] = p

\* C24: with the FIFO container, in every step, the handles that stay in
\* the container keep their order and the handles pushed go behind them, so
\* that the container always holds its handles in the order of their pushes;
\* pop takes the handle at the head, the eviction of an insert takes
\* handles from the head on (besides the handle that the insert replaces),
\* get and touch leave the container as it is.
C24_FifoOrder ==
    [][policy = "fifo" =>
          /\ \A p, q \in SeqToSet(eviction) \cap SeqToSet(eviction') :
                Place(eviction, p) < Place(eviction, q)
                => Place(eviction', p) < Place(eviction', q)
          /\ \A i, j \in 1..Len(eviction') :
                (i < j /\ eviction'[j] \in SeqToSet(eviction))
                => eviction'[i] \in SeqToSet(eviction)
          /\ Pop => eviction' = Tail(eviction)
          /\ \A k \in Keys :
                /\ Get(k) \/ Touch(k) => eviction' = eviction
                /\ (\E c \in Charges : Insert(k, c))
                   => \A i, j \in 1..Len(eviction) :
                         (/\ i < j
                          /\ eviction[j] \notin SeqToSet(eviction')
                          /\ handles[eviction[j]].key # k)
                         => eviction[i] \notin SeqToSet(eviction')
      ]_vars

\* C24 happens: the FIFO container holds two handles, the one at its head
\* was pushed first, was read by get since and is still at the head
C24_Witness ==
    /\ policy = "fifo"
    /\ Len(eviction) = 2
    /\ entries[eviction[1]] >= 2
    /\ handles[eviction[2]].refs = 0

\* the groups of the Batches returned by rotate: (batch, group) places
HandedGroups ==
    {<<b, i>> : b \in 1..Len(handed), i \in 1..RegionSlots} \cap
    UNION {{<<b, i>> : i \in 1..Len(handed[b].groups)} : b \in 1..Len(handed)}

GroupAt(x) == handed[x[1]].groups[x[2]]

\* the padded length of the first n frames of a group
RECURSIVE SumPadded(_, _)
SumPadded(indices, n) ==
    IF n = 0 THEN 0
    ELSE SumPadded(indices, n - 1) + AlignUp(Align, indices[n].address.len)

\* C28: for every group of every Batch returned by rotate, the length of
\* the bytes is the len of the region handle and is the sum of the padded
\* lengths of the frames of its indices (entries and reinsertions); the
\* offset of the i-th index is aligned and is region.offset plus the padded
\* lengths of the frames before it, and the bytes at that place are the
\* header of its frame.
C28_GroupBytes ==
    \A x \in HandedGroups :
        LET g == GroupAt(x)
        IN /\ Len(g.bytes) = g.len
           /\ g.len = SumPadded(g.indices, Len(g.indices))
           /\ \A i \in 1..Len(g.indices) :
                 LET a == g.indices[i].address
                     at == a.offset - g.offset
                     header == HeaderRead(SubSeq(g.bytes, at + 1,
                                                 at + HeaderLen))
                 IN /\ a.offset = g.offset + SumPadded(g.indices, i - 1)
                    /\ a.offset % Align = 0
                    /\ header # NoHeader
                    /\ header.hash = g.indices[i].hash
                    /\ header.sequence = a.sequence
                    /\ EntryLen(header) = a.len

\* C28 happens: a group that does not start its region was returned with
\* a frame, and a group with two frames, one of them a reinsertion, the
\* first one with padding
C28_Witness ==
    /\ \E x \in HandedGroups : GroupAt(x).offset > 0 /\ GroupAt(x).len > 0
    /\ \E x \in HandedGroups :
        LET g == GroupAt(x)
        IN /\ Len(g.indices) = 2
           /\ g.indices[1].address.len < g.indices[2].address.offset
                                           - g.indices[1].address.offset
           /\ \E i \in 1..2, j \in 1..Len(accepted.indices) :
                 /\ accepted.indices[j].hash = g.indices[i].hash
                 /\ accepted.indices[j].address.sequence
                       = g.indices[i].address.sequence
                 /\ accepted.indices[j].address.offset
                       # g.indices[i].address.offset

\* C29: over all groups of all Batches returned by rotate, the ranges
\* [region.offset, region.offset + region.len) are aligned and within the
\* region, those of two groups on the same region do not overlap, and the
\* first group of a Batch is on the region of the last group of the Batch
\* before it, where that group ended.
C29_GroupRanges ==
    /\ \A x \in HandedGroups :
          LET g == GroupAt(x)
          IN /\ g.offset % Align = 0
             /\ g.len % Align = 0
             /\ g.offset + g.len <= StoreRegionSize
    /\ \A x, y \in HandedGroups :
          (x # y /\ GroupAt(x).region = GroupAt(y).region)
          => \/ GroupAt(x).offset + GroupAt(x).len <= GroupAt(y).offset
             \/ GroupAt(y).offset + GroupAt(y).len <= GroupAt(x).offset
    /\ \A b \in 1..(Len(handed) - 1) :
          LET last == handed[b].groups[Len(handed[b].groups)]
              first == handed[b + 1].groups[1]
          IN /\ first.region = last.region
             /\ first.offset = last.offset + last.len

\* C29 happens: a Batch was returned whose first group goes on in the
\* region of the Batch before it and whose second group is on a new region
C29_Witness ==
    \E b \in 2..Len(handed) :
        /\ Len(handed[b].groups) = 2
        /\ handed[b].groups[1].offset > 0
        /\ handed[b].groups[1].len > 0
        /\ handed[b].groups[1].is_full
        /\ handed[b].groups[2].len > 0
        /\ handed[b].groups[2].region # handed[b].groups[1].region

\* the indices of the groups gs, group after group
RECURSIVE IndicesOf(_)
IndicesOf(gs) ==
    IF gs = <<>> THEN <<>> ELSE Head(gs).indices \o IndicesOf(Tail(gs))

\* what the Batches bs hold, Batch after Batch
RECURSIVE HandedOver(_)
HandedOver(bs) ==
    IF bs = <<>>
    THEN [indices |-> <<>>, tombstones |-> <<>>, waiters |-> <<>>]
    ELSE LET rest == HandedOver(Tail(bs))
         IN [indices |-> IndicesOf(Head(bs).groups) \o rest.indices,
             tombstones |-> Head(bs).tombstones \o rest.tombstones,
             waiters |-> Head(bs).waiters \o rest.waiters]

\* C30: the indices, tombstones and waiters accepted by the BatchMut are, in
\* the order of their acceptance, those of the Batches returned by rotate
\* followed by those the BatchMut holds: none is lost, none is in two
\* places; an empty BatchMut has one group of length 0; a call of rotate
\* returns None exactly when nothing was accepted since the Batch before,
\* and leaves the BatchMut empty with one group of length 0.
C30_RotateHandsOver ==
    /\ [](LET over == HandedOver(handed)
          IN /\ accepted.indices = over.indices \o IndicesOf(batch.groups)
             /\ accepted.tombstones = over.tombstones \o batch.tombstones
             /\ accepted.waiters = over.waiters \o batch.waiters
             /\ BatchIsEmpty(batch)
                => Len(batch.groups) = 1 /\ batch.groups[1].len = 0)
    /\ [][BatchMutRotate =>
             LET over == HandedOver(handed)
             IN /\ rotated'.t = "none"
                   <=> /\ accepted.indices = over.indices
                       /\ accepted.tombstones = over.tombstones
                       /\ accepted.waiters = over.waiters
                /\ BatchIsEmpty(batch')
                /\ batch'.len = 0
                /\ Len(batch'.groups) = 1
                /\ batch'.groups[1].len = 0
                /\ ~batch'.groups[1].is_full
        ]_vars

\* C30 happens: three Batches were returned, one of them with a tombstone
\* and a waiter and no entry, one with entries on two groups, and the last
\* call of rotate returned None
C30_Witness ==
    /\ Len(handed) = 3
    /\ rotated.t = "none"
    /\ \E b \in 1..3 :
          /\ handed[b].tombstones # <<>>
          /\ handed[b].waiters # <<>>
          /\ IndicesOf(handed[b].groups) = <<>>
    /\ \E b \in 1..3 :
          /\ Len(handed[b].groups) = 2
          /\ handed[b].groups[1].len > 0
          /\ handed[b].groups[2].len > 0

\* C22: every call of build() of the two builders of device options ends
\* with options that pass verify(): the file or region size is a multiple
\* of ALIGN and is not 0, the capacity is a multiple of that size and is
\* not 0.
C22_BuildVerifies ==
    built.t = "called" =>
        /\ built.result.t = "options"
        /\ Verify(built.result)

\* the sum of the weights of the items a pool holds
RECURSIVE SumWeights(_)
SumWeights(h) ==
    IF DOMAIN h = {} THEN 0
    ELSE LET i == CHOOSE x \in DOMAIN h : TRUE
         IN h[i] + SumWeights([x \in (DOMAIN h) \ {i} |-> h[x]])

\* the size of a pool is the sum of the weights of its items
SizeIsSum == \A id \in PoolIds : pools[id].size = SumWeights(pools[id].handles)

\* a pool is over its capacity only with exactly one item, heavier than the
\* capacity
WithinCapacity ==
    \A id \in PoolIds :
        \/ pools[id].size <= pools[id].capacity
        \/ \E i \in DOMAIN pools[id].handles :
            /\ DOMAIN pools[id].handles = {i}
            /\ pools[id].handles[i] > pools[id].capacity

\* inserting an index that is cached returns false and changes nothing
InsertCached ==
    \A i \in Indices :
        (i \in DOMAIN pools[PoolOf(i)].handles /\ ret'.op = "insert"
         /\ ret'.index = i /\ ret' # ret)
            => ret'.result = FALSE /\ pools' = pools /\ store' = store

\* an item evicted to make room is no longer cached, and get returns data
\* only for cached items
EvictedGone ==
    /\ ret.op = "insert" =>
        \A i \in ret.evicted : i \notin DOMAIN pools[PoolOf(i)].handles
    /\ ret.op = "get" /\ ret.result # NoData =>
        ret.index \in DOMAIN pools[PoolOf(ret.index)].handles

\* C23: after any sequence of Container insert, remove and get, each pool's
\* size is the sum of the weights of the items it caches, and the size is at
\* most the pool's capacity unless the pool holds exactly one item whose
\* weight alone exceeds the capacity; inserting a cached index returns false
\* and changes nothing; an item evicted to make room is no longer returned
\* by get.
C23_ContainerSize ==
    /\ [](SizeIsSum /\ WithinCapacity /\ EvictedGone)
    /\ [][InsertCached]_vars

\* a pool is over its capacity only when exactly one of its items has a
\* weight that is not 0, and that weight exceeds the capacity
WithinCapacityButOne ==
    \A id \in PoolIds :
        \/ pools[id].size <= pools[id].capacity
        \/ \E i \in DOMAIN pools[id].handles :
            /\ pools[id].handles[i] > pools[id].capacity
            /\ \A j \in (DOMAIN pools[id].handles) \ {i} :
                pools[id].handles[j] = 0

\* C23 as amended: each pool's size is the sum of the weights of the items
\* it caches, and the size is at most the pool's capacity unless exactly one
\* of the pool's items has a non-zero weight and that weight alone exceeds
\* the capacity; inserting a cached index returns false and changes nothing;
\* an item evicted to make room is no longer returned by get.
C23_ContainerSizeButOne ==
    /\ [](SizeIsSum /\ WithinCapacityButOne /\ EvictedGone)
    /\ [][InsertCached]_vars

\* an insert evicted an item and left the pool over its capacity with a
\* heavy item next to a weightless one
C23_Witness ==
    /\ ret.op = "insert"
    /\ ret.result
    /\ ret.evicted # {}
    /\ LET pool == pools[PoolOf(ret.index)]
       IN /\ pool.size > pool.capacity
          /\ Cardinality(DOMAIN pool.handles) = 2

\* the handles whose entry a batch holds and whose index is not published yet
Unpublished == {p \in Handles : pinned[p] \in {"batch", "rotated"}}

\* C21: an entry that BatchMut::entry accepted is found in memory from its
\* acceptance until its index is published, unless it is replaced or
\* removed: it is in the indexer when it is accepted, and while the batch
\* holds it only an insert of its key or a remove takes it out of the
\* indexer.
C21_PinnedUntilPublished ==
    /\ [](\A p \in Unpublished : handles[p].inited)
    /\ [][\A p \in Handles :
            /\ (pinned[p] = "none" /\ pinned'[p] = "batch")
                  => handles'[p].in_indexer
            /\ (p \in Unpublished /\ handles[p].in_indexer
                /\ ~handles'[p].in_indexer)
                  => \/ \E c \in Charges : ThreadInsert(handles[p].key, c)
                     \/ ThreadRemove(handles[p].key)]_vars

\* the frames written to the device, each with the region and the place in
\* written it has
OnDisk == {<<r, i>> : r \in Regions, i \in 1..RegionSlots} \cap
          {x \in Regions \X (1..RegionSlots) : x[2] <= Len(written[x[1]])}

\* the sequence in the header of a frame of the device
SequenceOnDisk(x) ==
    LET addr == written[x[1]][x[2]].addr
    IN HeaderRead(DeviceRead(disk[addr.region], addr.offset, HeaderLen)).sequence

\* C31: the disk indexer is never asked to insert, for a hash, an address
\* whose sequence is the sequence of the address published for that hash: a
\* reinsertion is written to the device under a new sequence, so no two
\* frames of the device carry the same hash and the same sequence.
C31_NewSequence ==
    /\ [](\A x \in OnDisk, y \in OnDisk :
            (x # y /\ written[x[1]][x[2]].hash = written[y[1]][y[2]].hash)
                => SequenceOnDisk(x) # SequenceOnDisk(y))
    /\ [][\A i \in 1..Len(flushing) :
            FlushGroup(i) =>
                \A j \in 1..Len(flushing[i].indices) :
                    LET e == flushing[i].indices[j]
                    IN e.hash \in DOMAIN dindexer
                         => dindexer[e.hash].sequence # e.address.sequence]_vars

\* C32: a Wait future of k gets the error of a closed channel only from the
\* failure of the loader whose waiters entry it joined: a failed loader
\* that removes the waiters entry of k is the only loader of k that runs, so
\* the entry is its own and not the one of a later loader. With two loaders
\* running the entry is the later one's, and the step stands for the
\* failure of either.
C32_OwnLoaderFails ==
    [][\A k \in FetchKeys :
          (LoaderErr(k) /\ k \in DOMAIN waiters) => loaders[k] = 1]_vars

\* C33: every Wait future eventually resolves: a sender queued in the
\* waiters map of k leaves it, taken by an insert or dropped by a failed
\* loader, and an insert that took senders sends to each of them.
C33_WaitResolves ==
    /\ \A k \in FetchKeys :
          (k \in DOMAIN waiters /\ waiters[k] # <<>>)
              ~> (k \notin DOMAIN waiters \/ waiters[k] = <<>>)
    /\ \A p \in Handles : (p \in DOMAIN sending) ~> (p \notin DOMAIN sending)

\* a sender is queued behind a running loader
C33_Witness ==
    /\ 1 \in DOMAIN waiters
    /\ waiters[1] = <<TRUE>>
    /\ loaders[1] = 2


\* every load and allocate call has returned and every slice is dropped
AllReturned ==
    /\ reading = 0
    /\ slices.write = 0
    /\ slices.buffered = 0
    /\ slices.owned = 0

\* C35: once every Region::load and Region::allocate call has returned and
\* every WriteSlice and ReadSlice is dropped, writers, buffered_readers and
\* physical_readers are 0; a physical read that fails with a device error
\* leaves the counters as they were before the load.
C35_CountersReturn ==
    /\ [](AllReturned =>
            /\ region.writers = 0
            /\ region.buffered_readers = 0
            /\ region.physical_readers = 0)
    /\ [][LoadReadErr =>
            region'.physical_readers = region.physical_readers - 1]_vars

C37_VersionGate ==
    /\ [][\A v \in 0..MaxVersion :
            (LoadBuffered(v) \/ LoadPhysical(v))
                => (v = 0 \/ v = region.version)]_vars
    /\ []((Unlocked /\ InFlight < MaxSlices)
            => ENABLED (LoadBuffered(0) \/ LoadPhysical(0)))
    /\ [][Advance => region'.version = region.version + 1]_vars
    /\ [](\A v \in 1..MaxVersion :
            v < region.version => ~ENABLED (LoadBuffered(v) \/ LoadPhysical(v)))

\* C37 happens: after an advance() a load with the new version has registered
\* a reader
C37_Witness ==
    /\ region.version = 2
    /\ region.physical_readers > 0


\* ------------------------------------------- threads at the shards' mutexes
\* The cache with NumShards shards: what the threads do with the mutexes.
\* op[t] names the operation of thread t, the mutexes it holds and the one it
\* waits for (0 if none).

\* the operations that lock the shard of their key and nothing else
SingleShardOps ==
    {"insert", "get", "remove", "contains", "touch", "drop", "pop_corase",
     "loader_err"}

\* a call of insert_with_context, get, remove, contains, touch, Entry::drop
\* (try_release_external_handle), pop_corase or of the loader task's failure
\* branch: it goes for the mutex of shard s
Call(t, name, s) ==
    /\ op[t] = Idle
    /\ op' = [op EXCEPT ![t] = [name |-> name, held |-> {}, want |-> s]]
    /\ UNCHANGED <<mutex, notMutex>>

\* pop: shards.iter().map(|shard| shard.lock()), the first shard first
CallPop(t) ==
    /\ op[t] = Idle
    /\ op' = [op EXCEPT ![t] = [name |-> "pop", held |-> {}, want |-> 1]]
    /\ UNCHANGED <<mutex, notMutex>>

\* clear: for shard in shards, one after the other
CallClear(t) ==
    /\ op[t] = Idle
    /\ op' = [op EXCEPT ![t] = [name |-> "clear", held |-> {}, want |-> 1]]
    /\ UNCHANGED <<mutex, notMutex>>

\* entry: shards[hash % len].lock()
CallEntry(t, s) ==
    /\ op[t] = Idle
    /\ op' = [op EXCEPT ![t] = [name |-> "entry", held |-> {}, want |-> s]]
    /\ UNCHANGED <<mutex, notMutex>>

\* Mutex::lock returns: the thread holds the mutex it waited for; pop goes on
\* to the next shard
Acquire(t) ==
    /\ op[t].want # 0
    /\ mutex[op[t].want] = 0
    /\ mutex' = [mutex EXCEPT ![op[t].want] = t]
    /\ op' = [op EXCEPT ![t].held = @ \cup {op[t].want},
                        ![t].want = IF op[t].name = "pop" /\ @ < NumShards
                                    THEN @ + 1 ELSE 0]
    /\ UNCHANGED notMutex

\* the mutexes of the shards of S are free again
GuardsDropped(S) == [s \in ShardIds |-> IF s \in S THEN 0 ELSE mutex[s]]

\* the guard of a single-shard operation goes out of scope; what follows
\* (sends, on_release, the return of the Entry) holds no mutex
Return(t) ==
    /\ op[t].name \in SingleShardOps
    /\ op[t].want = 0
    /\ mutex' = GuardsDropped(op[t].held)
    /\ op' = [op EXCEPT ![t] = Idle]
    /\ UNCHANGED notMutex

\* pop returns the Entry: all guards go out of scope
PopReturn(t) ==
    /\ op[t].name = "pop"
    /\ op[t].want = 0
    /\ mutex' = GuardsDropped(op[t].held)
    /\ op' = [op EXCEPT ![t] = Idle]
    /\ UNCHANGED notMutex

\* clear: the guard of a shard goes out of scope at the end of the loop body
ClearNext(t) ==
    /\ op[t].name = "clear"
    /\ op[t].want = 0
    /\ mutex' = GuardsDropped(op[t].held)
    /\ LET s == CHOOSE x \in op[t].held : TRUE
       IN op' = [op EXCEPT ![t] =
                    IF s < NumShards
                    THEN [name |-> "clear", held |-> {}, want |-> s + 1]
                    ELSE Idle]
    /\ UNCHANGED notMutex

\* entry, Hit or Occupied: the guard goes out of scope
EntryHitReturn(t) ==
    /\ op[t].name = "entry"
    /\ op[t].want = 0
    /\ mutex' = GuardsDropped(op[t].held)
    /\ op' = [op EXCEPT ![t] = Idle]
    /\ UNCHANGED notMutex

\* entry, Vacant: `let future = f();` runs the caller's closure with the guard
\* alive
EntryLoader(t) ==
    /\ op[t].name = "entry"
    /\ op[t].want = 0
    /\ op' = [op EXCEPT ![t].name = "entry_loader"]
    /\ UNCHANGED <<mutex, notMutex>>

\* the closure uses the cache before it returns its future: it calls get, or
\* an Entry it has captured is dropped, with a key of shard s
LoaderCall(t, s) ==
    /\ op[t].name = "entry_loader"
    /\ op' = [op EXCEPT ![t] = [name |-> "loader_call", held |-> op[t].held,
                                want |-> s, inner |-> s]]
    /\ UNCHANGED <<mutex, notMutex>>

\* the closure's call returns: its guard goes out of scope
LoaderCallReturn(t) ==
    /\ op[t].name = "loader_call"
    /\ op[t].want = 0
    /\ mutex' = GuardsDropped({op[t].inner})
    /\ op' = [op EXCEPT ![t] = [name |-> "entry_loader",
                                held |-> op[t].held \ {op[t].inner},
                                want |-> 0]]
    /\ UNCHANGED notMutex

\* f has returned: tokio::spawn, the guard of entry goes out of scope
EntrySpawnReturn(t) ==
    /\ op[t].name = "entry_loader"
    /\ mutex' = GuardsDropped(op[t].held)
    /\ op' = [op EXCEPT ![t] = Idle]
    /\ UNCHANGED notMutex

NextMutex ==
    \/ \E t \in Threads, name \in SingleShardOps, s \in ShardIds : Call(t, name, s)
    \/ \E t \in Threads : CallPop(t)
    \/ \E t \in Threads : CallClear(t)
    \/ \E t \in Threads, s \in ShardIds : CallEntry(t, s)
    \/ \E t \in Threads : Acquire(t)
    \/ \E t \in Threads : Return(t)
    \/ \E t \in Threads : PopReturn(t)
    \/ \E t \in Threads : ClearNext(t)
    \/ \E t \in Threads : EntryHitReturn(t)
    \/ \E t \in Threads : EntryLoader(t)
    \/ \E t \in Threads, s \in ShardIds : LoaderCall(t, s)
    \/ \E t \in Threads : LoaderCallReturn(t)
    \/ \E t \in Threads : EntrySpawnReturn(t)

SpecMutex == Init /\ [][NextMutex]_vars

\* the threads of W wait for mutexes that threads of W hold: none of them
\* ever goes on
Blocked(W) ==
    /\ W # {}
    /\ \A t \in W : op[t].want # 0 /\ mutex[op[t].want] \in W

\* C34: no interleaving of insert, get, remove, fetch, clear, pop, pop_corase
\* and Entry drop deadlocks on the shard mutexes: no set of threads waits for
\* mutexes its own members hold; pop takes the mutexes in index order; every
\* other operation holds at most one mutex and waits for none while it holds
\* one.
C34_NoDeadlock ==
    /\ \A W \in SUBSET Threads : ~Blocked(W)
    /\ \A t \in Threads :
          /\ op[t].name = "pop" =>
                \A s \in op[t].held : op[t].want = 0 \/ s < op[t].want
          /\ op[t].name # "pop" =>
                /\ Cardinality(op[t].held) <= 1
                /\ op[t].want # 0 => op[t].held = {}


\* ------------------------------------------------------------- set manager
\* The SetManager of the small-object store: per set the phantom RwLock with
\* the bloom filter, the cache of Arc<SetStorage> behind its mutex, the sets on
\* the device, and the tasks that read and write. A storage is named by the
\* number of the apply that made it, 0 for what the device holds at open; a
\* bloom filter by the number of the storage it was built from. The steps
\* under the cache mutex are one action each.

\* the positions in the cache of the storage of set id
CachedAt(id) == {i \in 1..Len(cache) : cache[i].id = id}

\* A write that leaves the cached storage where it is: C40 sees it.
InvalidateNothing(c, id) == c

\* the cache without the storage of set id
Invalidate(c, id) == SelectSeq(c, LAMBDA e : e.id # id)

\* the Arc<SetStorage> of set id has left the cache: the tasks that hold a
\* clone of it hold an Arc the cache does not know
Unshare(ts, id) ==
    [t \in Tasks |->
        IF ts[t].pc \in {"reading", "read_dropping"} /\ ts[t].id = id
        THEN [ts[t] EXCEPT !.shared = FALSE]
        ELSE ts[t]]

\* the strong count of the cached Arc of set id changes by d
Strong(c, id, d) ==
    [i \in 1..Len(c) |->
        IF c[i].id = id THEN [c[i] EXCEPT !.strong = @ + d] ELSE c[i]]

\* read: sets[id].read().await returns the read guard
SetRead(t, id) ==
    /\ tasks[t] = NoTask
    /\ ~sets[id].writer
    /\ sets' = [sets EXCEPT ![id].readers = @ + 1]
    /\ tasks' = [tasks EXCEPT ![t] = [pc |-> "read_locked", id |-> id]]
    /\ UNCHANGED <<cache, setdisk, notSet>>

\* read: guard.lookup(hash) is false, Ok(None); the read guard is dropped
ReadFiltered(t) ==
    /\ tasks[t].pc = "read_locked"
    /\ sets' = [sets EXCEPT ![tasks[t].id].readers = @ - 1]
    /\ tasks' = [tasks EXCEPT ![t] = NoTask]
    /\ UNCHANGED <<cache, setdisk, notSet>>

\* read: the cache holds the storage, the Arc is cloned
ReadCached(t) ==
    /\ tasks[t].pc = "read_locked"
    /\ CachedAt(tasks[t].id) # {}
    /\ LET id == tasks[t].id
           i == CHOOSE x \in CachedAt(id) : TRUE
       IN /\ cache' = Strong(cache, id, 1)
          /\ tasks' = [tasks EXCEPT ![t] =
                          [pc |-> "reading", id |-> id,
                           storage |-> cache[i].storage, shared |-> TRUE]]
    /\ UNCHANGED <<sets, setdisk, notSet>>

\* read: the cache does not hold the storage; it is read from the device,
\* put into the cache with a clone for the caller, and the oldest storage
\* leaves a cache that is over its capacity
ReadLoad(t) ==
    /\ tasks[t].pc = "read_locked"
    /\ CachedAt(tasks[t].id) = {}
    /\ LET id == tasks[t].id
           inserted == Append(cache, [id |-> id, storage |-> setdisk[id],
                                      strong |-> 2])
           over == Len(inserted) > SetCacheCapacity
           me == [pc |-> "reading", id |-> id, storage |-> setdisk[id],
                  shared |-> TRUE]
       IN /\ cache' = IF over THEN Tail(inserted) ELSE inserted
          /\ tasks' = IF over
                      THEN Unshare([tasks EXCEPT ![t] = me], Head(inserted).id)
                      ELSE [tasks EXCEPT ![t] = me]
    /\ UNCHANGED <<sets, setdisk, notSet>>

\* read: the device read of storage() fails, Err; the read guard is dropped
ReadErr(t) ==
    /\ tasks[t].pc = "read_locked"
    /\ CachedAt(tasks[t].id) = {}
    /\ sets' = [sets EXCEPT ![tasks[t].id].readers = @ - 1]
    /\ tasks' = [tasks EXCEPT ![t] = NoTask]
    /\ UNCHANGED <<cache, setdisk, notSet>>

\* the SetReadGuard is dropped: its fields go in the order of declaration,
\* the RwLockReadGuard first
ReadGuardDropLock(t) ==
    /\ tasks[t].pc = "reading"
    /\ sets' = [sets EXCEPT ![tasks[t].id].readers = @ - 1]
    /\ tasks' = [tasks EXCEPT ![t].pc = "read_dropping"]
    /\ UNCHANGED <<cache, setdisk, notSet>>

\* the SetReadGuard is dropped: the Set with its Arc<SetStorage> goes last
ReadGuardDropSet(t) ==
    /\ tasks[t].pc = "read_dropping"
    /\ cache' = IF tasks[t].shared THEN Strong(cache, tasks[t].id, -1)
                ELSE cache
    /\ tasks' = [tasks EXCEPT ![t] = NoTask]
    /\ UNCHANGED <<sets, setdisk, notSet>>

\* write: sets[id].write().await returns the write guard
SetWrite(t, id) ==
    /\ tasks[t] = NoTask
    /\ ~sets[id].writer
    /\ sets[id].readers = 0
    /\ sets' = [sets EXCEPT ![id].writer = TRUE]
    /\ tasks' = [tasks EXCEPT ![t] = [pc |-> "write_locked", id |-> id]]
    /\ UNCHANGED <<cache, setdisk, notSet>>

\* write: cache.remove(&id); Some: Arc::into_inner(storage).unwrap(), which
\* panics when another strong reference is alive (the write guard is dropped
\* by the unwinding); None: the storage is read from the device
WriteStorage(t) ==
    /\ tasks[t].pc = "write_locked"
    /\ LET id == tasks[t].id
           hit == CachedAt(id) # {}
           i == CHOOSE x \in CachedAt(id) : TRUE
           ts == Unshare(tasks, id)
       IN /\ cache' = Invalidate(cache, id)
          /\ IF hit /\ cache[i].strong # 1
             THEN /\ tasks' = [ts EXCEPT ![t] =
                                  [pc |-> "panicked", id |-> id,
                                   at |-> "Arc::into_inner"]]
                  /\ sets' = [sets EXCEPT ![id].writer = FALSE]
             ELSE /\ tasks' = [ts EXCEPT ![t] =
                                  [pc |-> "writing", id |-> id,
                                   storage |-> IF hit THEN cache[i].storage
                                               ELSE setdisk[id]]]
                  /\ sets' = sets
    /\ UNCHANGED <<setdisk, notSet>>

\* write: the device read of storage() fails, Err; the write guard is dropped
WriteErr(t) ==
    /\ tasks[t].pc = "write_locked"
    /\ CachedAt(tasks[t].id) = {}
    /\ sets' = [sets EXCEPT ![tasks[t].id].writer = FALSE]
    /\ tasks' = [tasks EXCEPT ![t] = NoTask]
    /\ UNCHANGED <<cache, setdisk, notSet>>

\* apply of the guard with the caller's changes, which make storage n:
\* storage.update(), the bloom filter behind the write guard is replaced
ApplyUpdate(t, n) ==
    /\ tasks[t].pc = "writing"
    /\ sets' = [sets EXCEPT ![tasks[t].id].bloom = n,
                            ![tasks[t].id].applied = 0]
    /\ tasks' = [tasks EXCEPT ![t].pc = "applying", ![t].storage = n]
    /\ UNCHANGED <<cache, setdisk, notSet>>

\* apply: device.write and flush return Ok; the panic guard is disabled, the
\* write guard dropped, Ok(())
ApplyWrite(t) ==
    /\ tasks[t].pc = "applying"
    /\ setdisk' = [setdisk EXCEPT ![tasks[t].id] = tasks[t].storage]
    /\ sets' = [sets EXCEPT ![tasks[t].id].writer = FALSE,
                            ![tasks[t].id].applied = tasks[t].storage]
    /\ tasks' = [tasks EXCEPT ![t] = NoTask]
    /\ UNCHANGED <<cache, notSet>>

\* apply: device.write (flushed = FALSE) or device.flush (flushed = TRUE)
\* returns Err; `?` returns, the rest of the guard is dropped: the write
\* guard, then the DropPanicGuard that was not disabled, which panics
ApplyErr(t, flushed) ==
    /\ tasks[t].pc = "applying"
    /\ setdisk' = IF flushed
                  THEN [setdisk EXCEPT ![tasks[t].id] = tasks[t].storage]
                  ELSE setdisk
    /\ sets' = [sets EXCEPT ![tasks[t].id].writer = FALSE]
    /\ tasks' = [tasks EXCEPT ![t] = [pc |-> "panicked", id |-> tasks[t].id,
                                      at |-> "DropPanicGuard"]]
    /\ UNCHANGED <<cache, notSet>>

\* the runtime has caught the panic of the task; another task comes
Respawn(t) ==
    /\ tasks[t].pc = "panicked"
    /\ tasks' = [tasks EXCEPT ![t] = NoTask]
    /\ UNCHANGED <<sets, cache, setdisk, notSet>>

NextSet ==
    \/ \E t \in Tasks, id \in SetIds : SetRead(t, id)
    \/ \E t \in Tasks : ReadFiltered(t)
    \/ \E t \in Tasks : ReadCached(t)
    \/ \E t \in Tasks : ReadLoad(t)
    \/ \E t \in Tasks : ReadErr(t)
    \/ \E t \in Tasks : ReadGuardDropLock(t)
    \/ \E t \in Tasks : ReadGuardDropSet(t)
    \/ \E t \in Tasks, id \in SetIds : SetWrite(t, id)
    \/ \E t \in Tasks : WriteStorage(t)
    \/ \E t \in Tasks : WriteErr(t)
    \/ \E t \in Tasks, n \in 1..MaxStorage : ApplyUpdate(t, n)
    \/ \E t \in Tasks : ApplyWrite(t)
    \/ \E t \in Tasks, flushed \in BOOLEAN : ApplyErr(t, flushed)
    \/ \E t \in Tasks : Respawn(t)

SpecSet == Init /\ [][NextSet]_vars

\* C38: when the device write or flush of SetManager::apply fails, apply
\* returns the error as an Err value: no task panics in apply.
C38_ApplyReturnsErr ==
    \A t \in Tasks :
        ~(tasks[t].pc = "panicked" /\ tasks[t].at = "DropPanicGuard")

\* C39: whenever write(id) holds the write lock of set id and finds a cached
\* storage of id, the cache's reference is the only strong one: taking the
\* storage out of its Arc never fails.
C39_SoleReference ==
    /\ \A t \in Tasks :
          tasks[t].pc = "write_locked" =>
              \A i \in CachedAt(tasks[t].id) : cache[i].strong = 1
    /\ \A t \in Tasks :
          ~(tasks[t].pc = "panicked" /\ tasks[t].at = "Arc::into_inner")

=============================================================================
